---- MODULE Spec2Model ----
(***************************************************************************)
(* Model of odata-builder's filter core: the field-operation dispatcher    *)
(* (createFieldProxy / createOperation), the immutable FilterBuilder with  *)
(* its AND-before-OR precedence resolution, the ODataFilterVisitor that    *)
(* renders filter nodes to $filter text, the operator table, and the       *)
(* filter and paging parts of OdataQueryBuilder (filter, top, skip,        *)
(* addComponent, toQuery).                                                 *)
(*                                                                         *)
(* JavaScript strings are sequences of one-character strings, so that      *)
(* escaping, case folding and joining are computed character by character. *)
(* Property names and the enumerated tokens of the code (operators, logic, *)
(* function types) are identifiers whose characters are given by Chars.    *)
(* Objects are records carrying exactly the properties the code sets, and  *)
(* `'p' in obj` is "p" \in DOMAIN obj.                                     *)
(***************************************************************************)
EXTENDS Integers, Sequences, FiniteSets, TLC

VARIABLES heap, last, dcur, dlast, vin, vout, qheap, qcur, qlast

vars == <<heap, last, dcur, dlast, vin, vout, qheap, qcur, qlast>>

(***************************************************************************)
(* Bounds                                                                  *)
(***************************************************************************)
MaxBuilders == 4
MaxPath == 2
MaxTransforms == 1
MaxStrLen == 2
MaxObjects == 2
MaxCount == 3
MaxChain == 3
MaxSnapshots == 4

(***************************************************************************)
(* JavaScript values                                                       *)
(***************************************************************************)
StrV(cs) == [t |-> "string", s |-> cs]
NumV(n) == [t |-> "number", n |-> n]
BoolV(b) == [t |-> "boolean", b |-> b]
NullV == [t |-> "null"]
UndefV == [t |-> "undefined"]
ArrV(items) == [t |-> "array", items |-> items]
DateV(time) == [t |-> "Date", time |-> time]
FnV(steps) == [t |-> "function", steps |-> steps]
RefV(id) == [t |-> "builder", id |-> id]

Throw(msg) == [k |-> "throw", msg |-> msg]

\* value of the variables a specification does not use
Idle == [k |-> "idle"]

Chars ==
    [ name |-> <<"n", "a", "m", "e">>,
      age |-> <<"a", "g", "e">>,
      tags |-> <<"t", "a", "g", "s">>,
      isActive |-> <<"i", "s", "A", "c", "t", "i", "v", "e">>,
      s |-> <<"s">>,
      t |-> <<"t">>,
      unknownOp |-> <<"u", "n", "k", "n", "o", "w", "n", "O", "p">>,
      eq |-> <<"e", "q">>,
      ne |-> <<"n", "e">>,
      gt |-> <<"g", "t">>,
      ge |-> <<"g", "e">>,
      lt |-> <<"l", "t">>,
      le |-> <<"l", "e">>,
      in |-> <<"i", "n">>,
      has |-> <<"h", "a", "s">>,
      and |-> <<"a", "n", "d">>,
      or |-> <<"o", "r">>,
      not |-> <<"n", "o", "t">>,
      any |-> <<"a", "n", "y">>,
      all |-> <<"a", "l", "l">>,
      null |-> <<"n", "u", "l", "l">>,
      true |-> <<"t", "r", "u", "e">>,
      false |-> <<"f", "a", "l", "s", "e">>,
      contains |-> <<"c", "o", "n", "t", "a", "i", "n", "s">>,
      startswith |-> <<"s", "t", "a", "r", "t", "s", "w", "i", "t", "h">>,
      endswith |-> <<"e", "n", "d", "s", "w", "i", "t", "h">>,
      length |-> <<"l", "e", "n", "g", "t", "h">>,
      indexof |-> <<"i", "n", "d", "e", "x", "o", "f">>,
      substring |-> <<"s", "u", "b", "s", "t", "r", "i", "n", "g">>,
      concat |-> <<"c", "o", "n", "c", "a", "t">>,
      tolower |-> <<"t", "o", "l", "o", "w", "e", "r">>,
      toupper |-> <<"t", "o", "u", "p", "p", "e", "r">>,
      trim |-> <<"t", "r", "i", "m">>,
      round |-> <<"r", "o", "u", "n", "d">>,
      floor |-> <<"f", "l", "o", "o", "r">>,
      ceiling |-> <<"c", "e", "i", "l", "i", "n", "g">>,
      year |-> <<"y", "e", "a", "r">>,
      month |-> <<"m", "o", "n", "t", "h">>,
      day |-> <<"d", "a", "y">>,
      hour |-> <<"h", "o", "u", "r">>,
      minute |-> <<"m", "i", "n", "u", "t", "e">>,
      second |-> <<"s", "e", "c", "o", "n", "d">>,
      add |-> <<"a", "d", "d">>,
      sub |-> <<"s", "u", "b">>,
      mul |-> <<"m", "u", "l">>,
      div |-> <<"d", "i", "v">>,
      mod |-> <<"m", "o", "d">>,
      now |-> <<"n", "o", "w">>,
      date |-> <<"d", "a", "t", "e">>,
      time |-> <<"t", "i", "m", "e">>,
      ignoreCase |-> <<"i", "g", "n", "o", "r", "e", "C", "a", "s", "e">>,
      removeQuotes |-> <<"r", "e", "m", "o", "v", "e", "Q", "u", "o", "t", "e", "s">>,
      isTrue |-> <<"i", "s", "T", "r", "u", "e">>,
      isFalse |-> <<"i", "s", "F", "a", "l", "s", "e">> ]

RECURSIVE Join(_, _)
Join(parts, sep) ==
    IF Len(parts) = 0 THEN <<>>
    ELSE IF Len(parts) = 1 THEN parts[1]
    ELSE parts[1] \o sep \o Join(Tail(parts), sep)

Arg(args, i) == IF i <= Len(args) THEN args[i] ELSE UndefV

\* property values are tagged JavaScript values; nodes, parts and function
\* descriptors are plain objects (records without a tag)
IsPlainObject(x) == "t" \notin DOMAIN x

HasProp(obj, p) == IsPlainObject(obj) /\ p \in DOMAIN obj

\* JavaScript truthiness
Truthy(x) ==
    IF IsPlainObject(x) THEN TRUE
    ELSE CASE x.t \in {"null", "undefined"} -> FALSE
           [] x.t = "boolean" -> x.b
           [] x.t = "number" -> x.n # 0
           [] x.t = "string" -> Len(x.s) > 0
           [] OTHER -> TRUE

(***************************************************************************)
(* Field-operation dispatcher (field-proxy)                                *)
(***************************************************************************)
COMPARISON_OPS == {"eq", "ne", "gt", "ge", "lt", "le", "in", "has"}
STRING_PREDICATES == {"contains", "startswith", "endswith"}
STRING_FUNCTIONS == {"length", "indexof", "substring", "concat"}
STRING_TRANSFORMS == {"tolower", "toupper", "trim"}
NUMBER_TRANSFORMS == {"round", "floor", "ceiling"}
DATE_TRANSFORMS == {"year", "month", "day", "hour", "minute", "second"}
ARITHMETIC_OPS == {"add", "sub", "mul", "div", "mod"}
MODIFIERS == {"ignoreCase", "removeQuotes"}
ARRAY_OPS == {"any", "all"}
BOOLEAN_SHORTCUTS == {"isTrue", "isFalse"}

ALL_OPERATIONS ==
    COMPARISON_OPS \cup STRING_PREDICATES \cup STRING_FUNCTIONS
        \cup STRING_TRANSFORMS \cup NUMBER_TRANSFORMS \cup DATE_TRANSFORMS
        \cup ARITHMETIC_OPS \cup MODIFIERS \cup ARRAY_OPS \cup BOOLEAN_SHORTCUTS

DefaultContext ==
    [path |-> <<>>, transforms |-> <<>>, ignoreCase |-> FALSE, removeQuotes |-> FALSE]

ProxyV(context) == [k |-> "proxy", ctx |-> context]
OpFnV(operation, context) == [k |-> "opfn", op |-> operation, ctx |-> context]
ExprV(filter) == [k |-> "expr", filter |-> filter]
UndefinedResult == [k |-> "undefined"]

fieldPathOf(context) == Join([i \in 1..Len(context.path) |-> Chars[context.path[i]]], <<"/">>)

createFilterExpression(field, operator, value, context) ==
    ExprV([field |-> field, operator |-> operator, value |-> value]
          @@ (IF Len(context.transforms) > 0
                THEN [transform |-> ArrV(context.transforms)] ELSE <<>>)
          @@ (IF context.ignoreCase THEN [ignoreCase |-> BoolV(TRUE)] ELSE <<>>)
          @@ (IF context.removeQuotes THEN [removeQuotes |-> BoolV(TRUE)] ELSE <<>>)
          @@ (IF "func" \in DOMAIN context
                THEN [function |-> context.func] ELSE <<>>))

\* the predicate node taking over the transforms of the context as well
createBooleanPredicateExpression_keepsTransforms(field, func, context) ==
    ExprV([field |-> field, function |-> func, operator |-> "eq", value |-> BoolV(TRUE)]
          @@ (IF Len(context.transforms) > 0
                THEN [transform |-> ArrV(context.transforms)] ELSE <<>>)
          @@ (IF context.ignoreCase THEN [ignoreCase |-> BoolV(TRUE)] ELSE <<>>))

\* the predicate emitted as a comparison whose operator names the predicate
createBooleanPredicateExpression_asOperator(field, func, context) ==
    ExprV([field |-> field, operator |-> func.type, value |-> func.value]
          @@ (IF context.ignoreCase THEN [ignoreCase |-> BoolV(TRUE)] ELSE <<>>))

createBooleanPredicateExpression(field, func, context) ==
    ExprV([field |-> field, function |-> func, operator |-> "eq", value |-> BoolV(TRUE)]
          @@ (IF context.ignoreCase THEN [ignoreCase |-> BoolV(TRUE)] ELSE <<>>))

createInFilterExpression(field, values) ==
    ExprV([field |-> field, operator |-> "in", values |-> values])

createHasFilterExpression(field, enumLiteral) ==
    ExprV([field |-> field, operator |-> "has", value |-> enumLiteral])

\* innerExpression._filter of whatever the predicate returned
createLambdaExpression(field, lambdaOperator, innerExpression) ==
    IF innerExpression.k = "expr"
        THEN ExprV([field |-> field, lambdaOperator |-> lambdaOperator,
                    expression |-> innerExpression.filter])
    ELSE IF innerExpression.k = "proxy"
        THEN ExprV([field |-> field, lambdaOperator |-> lambdaOperator,
                    expression |-> [proxy |-> TRUE]])
    ELSE IF innerExpression.k = "opfn"
        THEN ExprV([field |-> field, lambdaOperator |-> lambdaOperator,
                    expression |-> UndefV])
    ELSE Throw("TypeError")

withFunc(context, func) == [func |-> func] @@ context

\* in() accepting an empty list
inOperation_unchecked(fieldPath, values) ==
    createInFilterExpression(fieldPath, IF values.t = "array" THEN values.items ELSE <<>>)

\* the closure returned for case 'in'
inOperation(fieldPath, values) ==
    IF values.t # "array" \/ (values.t = "array" /\ Len(values.items) = 0)
        THEN Throw("in() requires at least one value")
        ELSE createInFilterExpression(fieldPath, values.items)

RECURSIVE invokeOperation(_, _, _)
RECURSIVE RunSteps(_, _)

\* the `get` trap of the Proxy returned by createFieldProxy
createFieldProxy_get(context, prop) ==
    IF prop \in ALL_OPERATIONS
        THEN OpFnV(prop, context)
        ELSE ProxyV([context EXCEPT !.path = Append(context.path, prop)])

\* the closure returned by createOperation(operation, context), applied to args
invokeOperation(operation, context, args) ==
    LET fieldPath == fieldPathOf(context) IN
    CASE operation \in {"eq", "ne", "gt", "ge", "lt", "le"} ->
            createFilterExpression(fieldPath, operation, Arg(args, 1), context)
      [] operation = "in" -> inOperation(fieldPath, Arg(args, 1))
      [] operation = "has" ->
            createHasFilterExpression(fieldPath, Arg(args, 1))
      [] operation \in STRING_PREDICATES ->
            createBooleanPredicateExpression(
                fieldPath, [type |-> operation, value |-> Arg(args, 1)], context)
      [] operation = "length" ->
            ProxyV(withFunc(context, [type |-> "length"]))
      [] operation = "indexof" ->
            ProxyV(withFunc(context, [type |-> "indexof", value |-> Arg(args, 1)]))
      [] operation = "substring" ->
            ProxyV(withFunc(context,
                [type |-> "substring", start |-> Arg(args, 1)]
                @@ (IF Arg(args, 2) # UndefV
                      THEN [length |-> Arg(args, 2)] ELSE <<>>)))
      [] operation = "concat" ->
            ProxyV(withFunc(context, [type |-> "concat", values |-> args]))
      [] operation \in STRING_TRANSFORMS \cup NUMBER_TRANSFORMS \cup DATE_TRANSFORMS ->
            ProxyV([context EXCEPT !.transforms = Append(context.transforms, operation)])
      [] operation \in ARITHMETIC_OPS ->
            ProxyV(withFunc(context, [type |-> operation, operand |-> Arg(args, 1)]))
      [] operation = "ignoreCase" ->
            ProxyV([context EXCEPT !.ignoreCase = TRUE])
      [] operation = "removeQuotes" ->
            ProxyV([context EXCEPT !.removeQuotes = TRUE])
      [] operation = "isTrue" ->
            createFilterExpression(fieldPath, "eq", BoolV(TRUE), context)
      [] operation = "isFalse" ->
            createFilterExpression(fieldPath, "eq", BoolV(FALSE), context)
      [] operation \in ARRAY_OPS ->
            LET predicate == Arg(args, 1) IN
            IF predicate.t # "function" THEN Throw("TypeError")
            ELSE LET innerExpression == RunSteps(ProxyV(DefaultContext), predicate.steps) IN
                 IF innerExpression.k = "throw" THEN innerExpression
                 ELSE createLambdaExpression(fieldPath, operation, innerExpression)
      [] OTHER -> Throw("Unknown operation")

\* one step of a property-access / call chain on a value of the dispatcher
Step(val, step) ==
    IF val.k = "throw" THEN val
    ELSE IF step.k = "get" THEN
        CASE val.k = "proxy" -> createFieldProxy_get(val.ctx, step.p)
          [] val.k = "undefined" -> Throw("TypeError")
          [] OTHER -> UndefinedResult
    ELSE
        CASE val.k = "opfn" -> invokeOperation(val.op, val.ctx, step.args)
          [] OTHER -> Throw("TypeError")

RunSteps(val, steps) ==
    IF Len(steps) = 0 THEN val
    ELSE RunSteps(Step(val, steps[1]), Tail(steps))

Get(p) == [k |-> "get", p |-> p]
Call(args) == [k |-> "call", args |-> args]

(***************************************************************************)
(* FilterBuilder                                                           *)
(***************************************************************************)
NullFilter == NullV


PartLogic(part) == IF "logic" \in DOMAIN part THEN part.logic ELSE "undefined"

\* groupParts with the run split at `and` instead of `or`
RECURSIVE groupParts_splitAtAnd(_, _, _, _)
groupParts_splitAtAnd(parts, i, orGroups, currentAndGroup) ==
    IF i > Len(parts)
        THEN IF Len(currentAndGroup) > 0
                THEN Append(orGroups, currentAndGroup) ELSE orGroups
    ELSE IF PartLogic(parts[i]) = "and"
        THEN groupParts_splitAtAnd(parts, i + 1,
                 IF Len(currentAndGroup) > 0
                    THEN Append(orGroups, currentAndGroup) ELSE orGroups,
                 <<parts[i].filter>>)
    ELSE groupParts_splitAtAnd(parts, i + 1, orGroups,
                               Append(currentAndGroup, parts[i].filter))

\* the for-loop of buildWithPrecedence over parts[i..], with its two accumulators
RECURSIVE groupParts(_, _, _, _)
groupParts(parts, i, orGroups, currentAndGroup) ==
    IF i > Len(parts)
        THEN IF Len(currentAndGroup) > 0
                THEN Append(orGroups, currentAndGroup) ELSE orGroups
    ELSE IF PartLogic(parts[i]) = "or"
        THEN groupParts(parts, i + 1,
                 IF Len(currentAndGroup) > 0
                    THEN Append(orGroups, currentAndGroup) ELSE orGroups,
                 <<parts[i].filter>>)
    ELSE groupParts(parts, i + 1, orGroups, Append(currentAndGroup, parts[i].filter))

\* orGroups.flatMap(...)
RECURSIVE combineAndGroups(_)
combineAndGroups(orGroups) ==
    IF Len(orGroups) = 0 THEN <<>>
    ELSE LET group == orGroups[1] IN
         (IF Len(group) = 1
            THEN (IF Truthy(group[1]) THEN <<group[1]>> ELSE <<>>)
            ELSE <<[logic |-> "and", filters |-> group]>>)
         \o combineAndGroups(Tail(orGroups))

\* buildWithPrecedence without the return of a single combined group
buildWithPrecedence_alwaysWraps(parts) ==
    [logic |-> "or", filters |-> combineAndGroups(groupParts(parts, 1, <<>>, <<>>))]

buildWithPrecedence(parts) ==
    LET orGroups == groupParts(parts, 1, <<>>, <<>>)
        combinedAndGroups == combineAndGroups(orGroups)
    IN IF Len(combinedAndGroups) = 1 /\ Truthy(combinedAndGroups[1])
          THEN combinedAndGroups[1]
          ELSE [logic |-> "or", filters |-> combinedAndGroups]

build(parts) ==
    IF Len(parts) = 0 THEN NullFilter
    ELSE IF Len(parts) = 1 /\ Truthy(parts[1]) THEN parts[1].filter
    ELSE buildWithPrecedence(parts)

isFilterBuilderLike(input) == input.t = "builder"

Resolved(filter, invoked) == [k |-> "ok", filter |-> filter, invoked |-> invoked]
ResolveThrow(msg, invoked) == [k |-> "throw", msg |-> msg, invoked |-> invoked]

resolveInput(h, input) ==
    IF isFilterBuilderLike(input)
        THEN Resolved(build(h[input.id].parts), FALSE)
    ELSE IF input.t # "function"
        THEN ResolveThrow("Expected a predicate function", FALSE)
    ELSE LET result == RunSteps(ProxyV(DefaultContext), input.steps) IN
         IF result.k = "throw" THEN ResolveThrow(result.msg, TRUE)
         ELSE IF result.k # "expr"
            THEN ResolveThrow("Predicate must return a filter expression", TRUE)
         ELSE Resolved(result.filter, TRUE)

\* outcome of a method call: the heap afterwards, what was returned or
\* thrown, and whether the predicate callback ran
Outcome(h, ret, invoked) == [heap |-> h, ret |-> ret, invoked |-> invoked]
Ref(id) == [k |-> "ref", id |-> id]
Value(v) == [k |-> "value", v |-> v]
New(h, parts) == Outcome(Append(h, [parts |-> parts]), Ref(Len(h) + 1), FALSE)
WithInvoked(o, invoked) == [o EXCEPT !.invoked = invoked]

\* where without the `if (!filter) return this` early return
where_keepsEmpty(h, this, input) ==
    LET r == resolveInput(h, input) IN
    IF r.k = "throw" THEN Outcome(h, Throw(r.msg), r.invoked)
    ELSE WithInvoked(New(h, Append(h[this].parts, [filter |-> r.filter])), r.invoked)

where(h, this, input) ==
    LET r == resolveInput(h, input) IN
    IF r.k = "throw" THEN Outcome(h, Throw(r.msg), r.invoked)
    ELSE IF ~Truthy(r.filter) THEN Outcome(h, Ref(this), r.invoked)
    ELSE WithInvoked(New(h, Append(h[this].parts, [filter |-> r.filter])), r.invoked)

EmptyBuilderUsage(method) ==
    Throw(CASE method = "and" -> "Cannot use .and() on empty builder"
            [] method = "or" -> "Cannot use .or() on empty builder"
            [] OTHER -> "Cannot use .not() on empty builder")

combine(h, this, input, logic) ==
    IF Len(h[this].parts) = 0
        THEN Outcome(h, EmptyBuilderUsage(logic), FALSE)
    ELSE LET r == resolveInput(h, input) IN
         IF r.k = "throw" THEN Outcome(h, Throw(r.msg), r.invoked)
         ELSE IF ~Truthy(r.filter) THEN Outcome(h, Ref(this), r.invoked)
         ELSE WithInvoked(
                New(h, Append(h[this].parts, [logic |-> logic, filter |-> r.filter])),
                r.invoked)

\* and() resolving its input before the empty-receiver check
and_resolvesFirst(h, this, input) ==
    LET r == resolveInput(h, input) IN
    IF r.k = "throw" THEN Outcome(h, Throw(r.msg), r.invoked)
    ELSE IF Len(h[this].parts) = 0
        THEN Outcome(h, EmptyBuilderUsage("and"), r.invoked)
    ELSE combine(h, this, input, "and")

\* and() pushing onto the receiver's own parts array
and_mutatesReceiver(h, this, input) ==
    LET o == combine(h, this, input, "and") IN
    IF o.ret.k = "ref" /\ o.ret.id # this
        THEN [o EXCEPT !.heap[this] = o.heap[o.ret.id]]
        ELSE o

\* and() splicing the parts of a builder input into its own parts
and_flattens(h, this, input) ==
    IF isFilterBuilderLike(input) /\ Len(h[this].parts) > 0 /\ Len(h[input.id].parts) > 1
        THEN New(h, h[this].parts \o
                    [i \in 1..Len(h[input.id].parts) |->
                        [logic |-> IF i = 1 THEN "and" ELSE PartLogic(h[input.id].parts[i]),
                         filter |-> h[input.id].parts[i].filter]])
        ELSE combine(h, this, input, "and")

and(h, this, input) == combine(h, this, input, "and")

or(h, this, input) == combine(h, this, input, "or")

\* not() negating only the last clause
not_lastClause(h, this) ==
    IF Len(h[this].parts) = 0
        THEN Outcome(h, EmptyBuilderUsage("not"), FALSE)
    ELSE LET n == Len(h[this].parts)
             lastPart == h[this].parts[n]
         IN New(h, [h[this].parts EXCEPT
                      ![n] = [lastPart EXCEPT
                                !.filter = [type |-> "not", filter |-> lastPart.filter]]])

not(h, this) ==
    IF Len(h[this].parts) = 0
        THEN Outcome(h, EmptyBuilderUsage("not"), FALSE)
    ELSE LET currentFilter == build(h[this].parts) IN
         IF ~Truthy(currentFilter)
            THEN Outcome(h, Throw("Cannot negate empty filter expression"), FALSE)
            ELSE New(h, <<[filter |-> [type |-> "not", filter |-> currentFilter]]>>)

\* group() adding the grouped tree to the conditions of its receiver
group_keepsReceiver(h, this, builder) ==
    LET result == build(h[builder].parts) IN
    IF ~Truthy(result)
        THEN Outcome(h, Throw("Cannot group empty FilterBuilder"), FALSE)
    ELSE IF Len(h[this].parts) = 0 THEN New(h, <<[filter |-> result]>>)
    ELSE New(h, Append(h[this].parts, [logic |-> "and", filter |-> result]))

\* group() with an empty-receiver check like that of and/or/not
group_checksReceiver(h, this, builder) ==
    IF Len(h[this].parts) = 0
        THEN Outcome(h, Throw("Cannot use .group() on empty builder"), FALSE)
    ELSE LET result == build(h[builder].parts) IN
         IF ~Truthy(result)
            THEN Outcome(h, Throw("Cannot group empty FilterBuilder"), FALSE)
            ELSE New(h, <<[filter |-> result]>>)

group(h, this, builder) ==
    LET result == build(h[builder].parts) IN
    IF ~Truthy(result)
        THEN Outcome(h, Throw("Cannot group empty FilterBuilder"), FALSE)
        ELSE New(h, <<[filter |-> result]>>)

buildCall(h, this) == Outcome(h, Value(build(h[this].parts)), FALSE)

(***************************************************************************)
(* Strings, numbers and dates as text                                      *)
(***************************************************************************)
SP == <<" ">>

RECURSIVE NatToChars(_)
NatToChars(n) ==
    LET Digit == <<"0", "1", "2", "3", "4", "5", "6", "7", "8", "9">> IN
    IF n < 10 THEN <<Digit[n + 1]>> ELSE NatToChars(n \div 10) \o <<Digit[(n % 10) + 1]>>

\* String(n) for an integer n
NumberToString(n) == IF n < 0 THEN <<"-">> \o NatToChars(-n) ELSE NatToChars(n)

RECURSIVE PadStart(_, _)
PadStart(cs, width) == IF Len(cs) >= width THEN cs ELSE PadStart(<<"0">> \o cs, width)

\* String.fromCharCode(c.charCodeAt(0) + 1) for the letters used as parameters
Alphabet ==
    <<"a", "b", "c", "d", "e", "f", "g", "h", "i", "j", "k", "l", "m",
      "n", "o", "p", "q", "r", "s", "t", "u", "v", "w", "x", "y", "z", "{">>

\* the parameter name of the parent reused
NextCharCode_same(c) == c

NextCharCode(c) == Alphabet[(CHOOSE i \in 1..(Len(Alphabet) - 1) : Alphabet[i] = c) + 1]

UpperLetters ==
    <<"A", "B", "C", "D", "E", "F", "G", "H", "I", "J", "K", "L", "M",
      "N", "O", "P", "Q", "R", "S", "T", "U", "V", "W", "X", "Y", "Z">>

toLowerCase(cs) ==
    LET LowerOf(c) ==
            IF \E i \in 1..Len(UpperLetters) : UpperLetters[i] = c
                THEN Alphabet[CHOOSE i \in 1..Len(UpperLetters) : UpperLetters[i] = c]
                ELSE c
    IN [i \in 1..Len(cs) |-> LowerOf(cs[i])]

\* s.replace(/'/g, "''") replacing only the first apostrophe
RECURSIVE replaceQuotes_firstOnly(_)
replaceQuotes_firstOnly(cs) ==
    IF Len(cs) = 0 THEN <<>>
    ELSE IF Head(cs) = "'" THEN <<"'", "'">> \o Tail(cs)
    ELSE <<Head(cs)>> \o replaceQuotes_firstOnly(Tail(cs))

\* s.replace(/'/g, "''")
RECURSIVE replaceQuotes(_)
replaceQuotes(cs) ==
    IF Len(cs) = 0 THEN <<>>
    ELSE (IF Head(cs) = "'" THEN <<"'", "'">> ELSE <<Head(cs)>>) \o replaceQuotes(Tail(cs))

\* cs.includes(c)
Includes(cs, c) == \E i \in 1..Len(cs) : cs[i] = c

\* a time value is kept as whole days since the epoch and milliseconds of the day
TimeOf(n) == [day |-> n \div 86400000, ms |-> n % 86400000]
\* year, month and day of a day count, stage by stage: the day of the
\* 400-year era, the year of the era, the day of the year, the month index
CivilOfMp(y, doy, mp) ==
    [year |-> y + (IF mp >= 10 THEN 1 ELSE 0),
     month |-> IF mp < 10 THEN mp + 3 ELSE mp - 9,
     day |-> doy - (153 * mp + 2) \div 5 + 1]
CivilOfDoy(y, doy) == CivilOfMp(y, doy, (5 * doy + 2) \div 153)
CivilOfYoe(era, doe, yoe) ==
    CivilOfDoy(yoe + era * 400, doe - (365 * yoe + yoe \div 4 - yoe \div 100))
CivilOfDoe(era, doe) ==
    CivilOfYoe(era, doe, (doe - doe \div 1460 + doe \div 36524 - doe \div 146096) \div 365)
Civil(time) ==
    CivilOfDoe((time.day + 719468) \div 146097, (time.day + 719468) % 146097)

getUTCFullYear(time) == Civil(time).year
getUTCMonth(time) == Civil(time).month - 1
getUTCDate(time) == Civil(time).day
getUTCHours(time) == time.ms \div 3600000
getUTCMinutes(time) == (time.ms \div 60000) % 60
getUTCSeconds(time) == (time.ms \div 1000) % 60

\* Date.prototype.toISOString for years 0..9999
toISOString(time) ==
    PadStart(NatToChars(getUTCFullYear(time)), 4) \o <<"-">>
        \o PadStart(NatToChars(getUTCMonth(time) + 1), 2) \o <<"-">>
        \o PadStart(NatToChars(getUTCDate(time)), 2) \o <<"T">>
        \o PadStart(NatToChars(getUTCHours(time)), 2) \o <<":">>
        \o PadStart(NatToChars(getUTCMinutes(time)), 2) \o <<":">>
        \o PadStart(NatToChars(getUTCSeconds(time)), 2) \o <<".">>
        \o PadStart(NatToChars(time.ms % 1000), 3) \o <<"Z">>

(***************************************************************************)
(* Type classifier and operator table (filter-helper.util)                 *)
(***************************************************************************)
\* /^[0-9a-f]{8}-[0-9a-f]{4}-[0-9a-f]{4}-[0-9a-f]{4}-[0-9a-f]{12}$/i
isGuid(v) ==
    LET HexChars ==
            {"0", "1", "2", "3", "4", "5", "6", "7", "8", "9",
             "a", "b", "c", "d", "e", "f", "A", "B", "C", "D", "E", "F"}
    IN
    /\ v.t = "string"
    /\ Len(v.s) = 36
    /\ \A i \in 1..36 :
          IF i \in {9, 14, 19, 24} THEN v.s[i] = "-" ELSE v.s[i] \in HexChars

getValueType(v) ==
    IF v.t = "null" THEN "null"
    ELSE IF v.t = "Date" THEN "Date"
    ELSE IF v.t = "string" /\ isGuid(v) THEN "Guid"
    ELSE IF v.t = "number" THEN "number"
    ELSE IF v.t = "boolean" THEN "boolean"
    ELSE IF v.t = "string" THEN "string"
    ELSE "unknown"

\* the table with the Guid row given the ordering operators of number
operatorTypeMap_guidOrdered ==
    [ string |-> {"eq", "ne", "contains", "startswith", "endswith", "substringof",
                  "indexof", "concat"},
      number |-> {"eq", "ne", "lt", "le", "gt", "ge"},
      boolean |-> {"eq", "ne"},
      Date |-> {"eq", "ne", "lt", "le", "gt", "ge"},
      Guid |-> {"eq", "ne", "lt", "le", "gt", "ge"},
      null |-> {"eq", "ne"} ]

operatorTypeMap ==
    [ string |-> {"eq", "ne", "contains", "startswith", "endswith",
                  "substringof", "indexof", "concat"},
      number |-> {"eq", "ne", "lt", "le", "gt", "ge"},
      boolean |-> {"eq", "ne"},
      Date |-> {"eq", "ne", "lt", "le", "gt", "ge"},
      Guid |-> {"eq", "ne"},
      null |-> {"eq", "ne"} ]

isValidOperator(type, operator) ==
    type \in DOMAIN operatorTypeMap /\ operator \in operatorTypeMap[type]

\* typeof obj === 'object' && 'logic' in obj && 'filters' in obj
isCombinedFilter(obj) == HasProp(obj, "logic") /\ HasProp(obj, "filters")

(***************************************************************************)
(* ODataFilterVisitor.  A rendering is Ok(text) or a thrown error.         *)
(***************************************************************************)
Ok(cs) == [k |-> "ok", s |-> cs]

\* pre, the texts joined by sep, post; or the first error thrown while the
\* texts were being made
JoinAll(pre, rs, sep, post) ==
    IF \E i \in DOMAIN rs : rs[i].k = "throw"
        THEN rs[CHOOSE i \in DOMAIN rs :
                    rs[i].k = "throw" /\ \A j \in 1..(i - 1) : rs[j].k # "throw"]
        ELSE Ok(pre \o Join([i \in DOMAIN rs |-> rs[i].s], sep) \o post)

\* pre, a formatted text, post; or the error formatting it threw
After(pre, formatted, post) ==
    IF formatted.k = "throw" THEN formatted ELSE Ok(pre \o formatted.s \o post)

\* a field that names the parameter of an enclosing lambda is left as it is
getPrefixedField_ancestors(field, prefix) ==
    IF Len(prefix) = 0 THEN field
    ELSE IF field = <<"s">> THEN prefix
    ELSE IF /\ Len(field) = 1
            /\ \E i \in 19..Len(Alphabet) :
                  /\ Alphabet[i] = field[1]
                  /\ \E j \in i..Len(Alphabet) : Alphabet[j] = prefix[1]
        THEN field
    ELSE IF Len(field) > 0 THEN prefix \o <<"/">> \o field
    ELSE prefix

getPrefixedField(field, prefix) ==
    IF Len(prefix) = 0 THEN field
    ELSE IF field = <<"s">> THEN prefix
    ELSE IF field = prefix THEN field
    ELSE IF Len(field) > 0 THEN prefix \o <<"/">> \o field
    ELSE prefix

validateOperator(type, operator) ==
    IF ~isValidOperator(type, operator)
        THEN Throw("Invalid operator for type") ELSE Ok(<<>>)

\* String(value) of a boolean
BooleanToString(b) == IF b THEN <<"t", "r", "u", "e">> ELSE <<"f", "a", "l", "s", "e">>

formatValue(value) ==
    IF value.t = "string" THEN Ok(<<"'">> \o replaceQuotes(value.s) \o <<"'">>)
    ELSE IF value.t = "Date" THEN Ok(toISOString(value.time))
    ELSE IF value.t = "number" THEN Ok(NumberToString(value.n))
    ELSE IF value.t = "boolean" THEN Ok(BooleanToString(value.b))
    ELSE Throw("Unsupported value type")

formatInValue(value) ==
    IF value.t = "null" THEN Ok(<<"n", "u", "l", "l">>)
    ELSE IF value.t = "string"
        THEN IF isGuid(value) THEN Ok(value.s)
             ELSE Ok(<<"'">> \o replaceQuotes(value.s) \o <<"'">>)
    ELSE IF value.t = "Date" THEN Ok(toISOString(value.time))
    ELSE IF value.t = "number" THEN Ok(NumberToString(value.n))
    ELSE IF value.t = "boolean" THEN Ok(BooleanToString(value.b))
    ELSE Throw("Unsupported value type in 'in' filter")

HasIgnoreCase(filter) == HasProp(filter, "ignoreCase") /\ Truthy(filter.ignoreCase)
HasRemoveQuotes(filter) == HasProp(filter, "removeQuotes") /\ Truthy(filter.removeQuotes)
HasFunction(filter) == HasProp(filter, "function") /\ Truthy(filter.function)

\* transforms.reduce((acc, transform) => `${transform}(${acc})`, field)
RECURSIVE wrapTransforms(_, _)
wrapTransforms(transforms, acc) ==
    IF Len(transforms) = 0 THEN acc
    ELSE wrapTransforms(Tail(transforms),
            (CASE Head(transforms) = "tolower" -> <<"t", "o", "l", "o", "w", "e", "r">>
               [] Head(transforms) = "toupper" -> <<"t", "o", "u", "p", "p", "e", "r">>
               [] Head(transforms) = "trim" -> <<"t", "r", "i", "m">>
               [] Head(transforms) = "round" -> <<"r", "o", "u", "n", "d">>
               [] Head(transforms) = "floor" -> <<"f", "l", "o", "o", "r">>
               [] Head(transforms) = "ceiling" -> <<"c", "e", "i", "l", "i", "n", "g">>
               [] Head(transforms) = "year" -> <<"y", "e", "a", "r">>
               [] Head(transforms) = "month" -> <<"m", "o", "n", "t", "h">>
               [] Head(transforms) = "day" -> <<"d", "a", "y">>
               [] Head(transforms) = "hour" -> <<"h", "o", "u", "r">>
               [] Head(transforms) = "minute" -> <<"m", "i", "n", "u", "t", "e">>
               [] Head(transforms) = "second" -> <<"s", "e", "c", "o", "n", "d">>)
            \o <<"(">> \o acc \o <<")">>)

\* the case fold applied after the transforms of the chain
getTransformedField_caseFoldLast(filter) ==
    wrapTransforms(
        (IF HasProp(filter, "transform") /\ filter.transform.t = "array"
            THEN filter.transform.items ELSE <<>>)
        \o (IF HasIgnoreCase(filter) THEN <<"tolower">> ELSE <<>>),
        filter.field)

getTransformedField(filter) ==
    wrapTransforms(
        (IF HasIgnoreCase(filter) THEN <<"tolower">> ELSE <<>>)
        \o (IF HasProp(filter, "transform") /\ filter.transform.t = "array"
              THEN filter.transform.items ELSE <<>>),
        filter.field)

dateTransform(transform, time) ==
    CASE transform = "year" -> getUTCFullYear(time)
      [] transform = "month" -> getUTCMonth(time) + 1
      [] transform = "day" -> getUTCDate(time)
      [] transform = "hour" -> getUTCHours(time)
      [] transform = "minute" -> getUTCMinutes(time)
      [] transform = "second" -> getUTCSeconds(time)

\* transforms.reduce((acc, t) => dateTransforms[t](new Date(acc)), +date);
\* the accumulator is the date itself, then the number the last transform gave
RECURSIVE applyDateTransforms(_, _)
applyDateTransforms(time, transforms) ==
    IF Head(transforms) \notin DATE_TRANSFORMS THEN Throw("Unsupported DateTransform")
    ELSE IF Len(transforms) = 1
        THEN Ok(NumberToString(dateTransform(Head(transforms), time)))
    ELSE applyDateTransforms(TimeOf(dateTransform(Head(transforms), time)), Tail(transforms))

resolveField(field) ==
    IF ~IsPlainObject(field)
        THEN (IF field.t = "string" THEN Ok(field.s) ELSE Throw("Unsupported FieldReference type"))
    ELSE IF "/" \in DOMAIN field THEN Ok(field.fieldReference)
    ELSE Throw("Unsupported FieldReference type")

createArithmeticHandler(operator, func, field) ==
    IF ~HasProp(func, "operand")
        THEN Throw("Invalid function definition: missing operand property")
    ELSE After(field \o SP
               \o (CASE operator = "add" -> <<"a", "d", "d">>
                     [] operator = "sub" -> <<"s", "u", "b">>
                     [] operator = "mul" -> <<"m", "u", "l">>
                     [] operator = "div" -> <<"d", "i", "v">>
                     [] operator = "mod" -> <<"m", "o", "d">>)
               \o SP,
               formatValue(func.operand), <<>>)

processFunction(func, field) ==
    IF ~HasProp(func, "type") THEN Throw("Invalid function definition: missing type property")
    ELSE CASE func.type = "concat" ->
                JoinAll(<<"c", "o", "n", "c", "a", "t", "(">>,
                        <<Ok(field)>>
                        \o [i \in DOMAIN func.values |-> formatValue(func.values[i])],
                        <<",", " ">>, <<")">>)
           [] func.type \in {"contains", "endswith", "indexof", "startswith"} ->
                After((CASE func.type = "contains" -> <<"c", "o", "n", "t", "a", "i", "n", "s">>
                         [] func.type = "endswith" -> <<"e", "n", "d", "s", "w", "i", "t", "h">>
                         [] func.type = "indexof" -> <<"i", "n", "d", "e", "x", "o", "f">>
                         [] func.type = "startswith" ->
                                <<"s", "t", "a", "r", "t", "s", "w", "i", "t", "h">>)
                      \o <<"(">> \o field \o <<",", " ">>,
                      formatValue(func.value), <<")">>)
           [] func.type = "length" ->
                Ok(<<"l", "e", "n", "g", "t", "h", "(">> \o field \o <<")">>)
           [] func.type = "substring" ->
                JoinAll(<<"s", "u", "b", "s", "t", "r", "i", "n", "g", "(">> \o field
                            \o <<",", " ">>,
                        [i \in 1..(IF HasProp(func, "length") /\ func.length # UndefV
                                      THEN 2 ELSE 1) |->
                            formatValue(IF i = 1 THEN func.start ELSE func.length)],
                        <<",", " ">>, <<")">>)
           [] func.type \in {"add", "sub", "mul", "div", "mod"} ->
                createArithmeticHandler(func.type, func, field)
           [] func.type = "now" -> Ok(<<"n", "o", "w", "(", ")">>)
           [] func.type \in {"date", "time"} ->
                After((IF func.type = "date" THEN <<"d", "a", "t", "e">>
                                             ELSE <<"t", "i", "m", "e">>) \o <<"(">>,
                      resolveField(func.field), <<")">>)
           [] OTHER -> Throw("Unsupported function type")

\* contains alone taken as a boolean predicate
booleanPredicates_containsOnly == {"contains"}

booleanPredicates == {"contains", "startswith", "endswith"}

\* `${left} ${operator} ${right}`
Compare(left, operator, right) ==
    IF left.k = "throw" THEN left
    ELSE IF right.k = "throw" THEN right
    ELSE Ok(left.s \o SP
            \o (CASE operator = "eq" -> <<"e", "q">>
                  [] operator = "ne" -> <<"n", "e">>
                  [] operator = "gt" -> <<"g", "t">>
                  [] operator = "ge" -> <<"g", "e">>
                  [] operator = "lt" -> <<"l", "t">>
                  [] operator = "le" -> <<"l", "e">>
                  [] operator = "in" -> <<"i", "n">>
                  [] operator = "has" -> <<"h", "a", "s">>
                  [] operator = "contains" -> <<"c", "o", "n", "t", "a", "i", "n", "s">>
                  [] operator = "startswith" ->
                        <<"s", "t", "a", "r", "t", "s", "w", "i", "t", "h">>
                  [] operator = "endswith" -> <<"e", "n", "d", "s", "w", "i", "t", "h">>
                  [] operator = "substringof" ->
                        <<"s", "u", "b", "s", "t", "r", "i", "n", "g", "o", "f">>
                  [] operator = "indexof" -> <<"i", "n", "d", "e", "x", "o", "f">>
                  [] operator = "concat" -> <<"c", "o", "n", "c", "a", "t">>)
            \o SP \o right.s)

\* The branches of the method that end in the same template are taken
\* together: lines 42-49, 68-76 and 120-126 (null, Date and number values) and
\* 110-117 (string value) are `${leftSide} ${operator} ${value}`; lines 104-109
\* and 136-152 return the predicate call itself.
visitBasicFilter(filter) ==
    IF ~HasProp(filter, "value") THEN Throw("Invalid BasicFilter: missing value property")
    ELSE IF filter.value # NullV /\ getValueType(filter.value) = "unknown"
        THEN Throw("Unsupported value type")
    ELSE IF /\ filter.value # NullV
            /\ validateOperator(getValueType(filter.value), filter.operator).k = "throw"
        THEN Throw("Invalid operator for type")
    ELSE IF filter.value.t = "Date" /\ HasProp(filter, "transform")
            /\ filter.transform.t # "array"
        THEN Throw("TypeError")
    ELSE IF filter.value.t = "Date" /\ HasProp(filter, "transform")
            /\ Len(filter.transform.items) > 0
        THEN Compare(Ok(getTransformedField(filter)), filter.operator,
                     applyDateTransforms(filter.value.time, filter.transform.items))
    ELSE IF /\ filter.value.t \in {"string", "boolean"}
            /\ HasFunction(filter)
            /\ HasProp(filter.function, "type")
            /\ filter.function.type \in booleanPredicates
        THEN processFunction(
                IF /\ filter.value.t = "boolean"
                   /\ HasIgnoreCase(filter)
                   /\ HasProp(filter.function, "value")
                   /\ filter.function.value.t = "string"
                    THEN [filter.function EXCEPT
                            !.value = StrV(toLowerCase(filter.function.value.s))]
                    ELSE filter.function,
                IF HasIgnoreCase(filter)
                    THEN <<"t", "o", "l", "o", "w", "e", "r", "(">> \o filter.field \o <<")">>
                    ELSE filter.field)
    ELSE IF filter.value.t = "boolean"
        THEN Compare(Ok(getTransformedField(filter)), filter.operator,
                     Ok(BooleanToString(filter.value.b)))
    ELSE Compare(
            IF HasFunction(filter)
                THEN processFunction(filter.function,
                        IF filter.value.t = "string" /\ HasIgnoreCase(filter)
                            THEN <<"t", "o", "l", "o", "w", "e", "r", "(">> \o filter.field
                                 \o <<")">>
                            ELSE filter.field)
                ELSE Ok(getTransformedField(filter)),
            filter.operator,
            CASE filter.value.t = "null" -> Ok(<<"n", "u", "l", "l">>)
              [] filter.value.t = "Date" -> Ok(toISOString(filter.value.time))
              [] filter.value.t = "number" -> Ok(NumberToString(filter.value.n))
              [] filter.value.t = "string" ->
                    Ok((IF HasRemoveQuotes(filter) THEN <<>> ELSE <<"'">>)
                       \o replaceQuotes(IF HasIgnoreCase(filter)
                                           THEN toLowerCase(filter.value.s)
                                           ELSE filter.value.s)
                       \o (IF HasRemoveQuotes(filter) THEN <<>> ELSE <<"'">>)))

\* `${value}` of a template literal
TemplateText(value) ==
    CASE value.t = "string" -> value.s
      [] value.t = "number" -> NumberToString(value.n)
      [] value.t = "boolean" -> BooleanToString(value.b)
      [] value.t = "null" -> <<"n", "u", "l", "l">>
      [] OTHER -> <<"u", "n", "d", "e", "f", "i", "n", "e", "d">>

visitHasFilter_quoted(filter) ==
    After(filter.field \o <<" ", "h", "a", "s", " ">>, formatValue(filter.value), <<>>)

visitHasFilter(filter) ==
    Ok(filter.field \o <<" ", "h", "a", "s", " ">> \o TemplateText(filter.value))

visitInFilter_legacyFormatValue(context, filter) ==
    IF context.legacyInOperator
        THEN JoinAll(<<"(">>,
                     [i \in DOMAIN filter.values |->
                        After(filter.field \o <<" ", "e", "q", " ">>,
                              formatValue(filter.values[i]), <<>>)],
                     <<" ", "o", "r", " ">>, <<")">>)
        ELSE JoinAll(filter.field \o <<" ", "i", "n", " ", "(">>,
                     [i \in DOMAIN filter.values |-> formatInValue(filter.values[i])],
                     <<",", " ">>, <<")">>)

visitInFilter(context, filter) ==
    IF context.legacyInOperator
        THEN JoinAll(<<"(">>,
                     [i \in DOMAIN filter.values |->
                        After(filter.field \o <<" ", "e", "q", " ">>,
                              formatInValue(filter.values[i]), <<>>)],
                     <<" ", "o", "r", " ">>, <<")">>)
        ELSE JoinAll(filter.field \o <<" ", "i", "n", " ", "(">>,
                     [i \in DOMAIN filter.values |-> formatInValue(filter.values[i])],
                     <<",", " ">>, <<")">>)

\* type guards of filter-utils
isBasicFilter(obj) ==
    /\ HasProp(obj, "field") /\ HasProp(obj, "operator") /\ HasProp(obj, "value")
    /\ ~HasProp(obj, "lambdaOperator")

RECURSIVE isLambdaFilter(_)
isLambdaFilter(obj) ==
    /\ HasProp(obj, "field") /\ HasProp(obj, "lambdaOperator") /\ HasProp(obj, "expression")
    /\ \/ isBasicFilter(obj.expression)
       \/ isCombinedFilter(obj.expression)
       \/ isLambdaFilter(obj.expression)

isInFilter(obj) ==
    /\ HasProp(obj, "field") /\ HasProp(obj, "operator")
    /\ obj.operator = "in" /\ HasProp(obj, "values")

isNegatedFilter(obj) ==
    HasProp(obj, "type") /\ obj.type = "not" /\ HasProp(obj, "filter")

isHasFilter(obj) ==
    /\ HasProp(obj, "field") /\ HasProp(obj, "operator")
    /\ obj.operator = "has" /\ HasProp(obj, "value")

\* the type guard local to filter-visitor
isLambdaFilter_visitor(filter) ==
    HasProp(filter, "lambdaOperator") /\ HasProp(filter, "expression")

\* `${field}/${lambdaOperator}(${currentParam}: ${subQuery})`
lambdaText(field, lambdaOperator, currentParam, subQuery) ==
    After(field \o <<"/">>
          \o (IF lambdaOperator = "any" THEN <<"a", "n", "y">> ELSE <<"a", "l", "l">>)
          \o <<"(">> \o currentParam \o <<":", " ">>,
          subQuery, <<")">>)

\* parentheses only around a text that holds an ` and ` or an ` or `
combinedText_whenJoined(combinedQueries) ==
    IF combinedQueries.k = "throw" THEN combinedQueries
    ELSE IF \/ \E i \in 1..(Len(combinedQueries.s) - 4) :
                    SubSeq(combinedQueries.s, i, i + 4) = <<" ", "a", "n", "d", " ">>
            \/ \E i \in 1..(Len(combinedQueries.s) - 3) :
                    SubSeq(combinedQueries.s, i, i + 3) = <<" ", "o", "r", " ">>
        THEN Ok(<<"(">> \o combinedQueries.s \o <<")">>)
    ELSE combinedQueries

\* combinedQueries.includes(' ') ? `(${combinedQueries})` : combinedQueries
combinedText(combinedQueries) ==
    IF combinedQueries.k = "throw" THEN combinedQueries
    ELSE IF Includes(combinedQueries.s, " ")
        THEN Ok(<<"(">> \o combinedQueries.s \o <<")">>)
    ELSE combinedQueries

\* negation rendered without parentheses around an already parenthesized text
negationText_bareWhenParenthesized(innerQuery) ==
    IF innerQuery.k = "throw" THEN innerQuery
    ELSE IF Len(innerQuery.s) > 0 /\ innerQuery.s[1] = "("
        THEN Ok(<<"n", "o", "t", " ">> \o innerQuery.s)
    ELSE Ok(<<"n", "o", "t", " ", "(">> \o innerQuery.s \o <<")">>)

\* `not (${innerQuery})`
negationText(innerQuery) ==
    IF innerQuery.k = "throw" THEN innerQuery
    ELSE Ok(<<"n", "o", "t", " ", "(">> \o innerQuery.s \o <<")">>)

RECURSIVE visitLambdaFilter(_, _, _)
RECURSIVE visitCombinedFilter(_, _, _)
RECURSIVE visitNegatedFilter(_, _)

\* currentParam is 's' without a parent and the parent's next letter otherwise
visitLambdaFilter(context, filter, parentPrefix) ==
    IF \/ ~HasProp(filter, "lambdaOperator")
       \/ ~HasProp(filter, "expression")
       \/ ~Truthy(filter.expression)
        THEN Throw("Invalid LambdaFilter")
    ELSE lambdaText(
            getPrefixedField(filter.field, parentPrefix),
            filter.lambdaOperator,
            IF Len(parentPrefix) > 0 THEN <<NextCharCode(parentPrefix[1])>> ELSE <<"s">>,
            IF isCombinedFilter(filter.expression)
                THEN visitCombinedFilter(context, filter.expression,
                        IF Len(parentPrefix) > 0
                            THEN <<NextCharCode(parentPrefix[1])>> ELSE <<"s">>)
            ELSE IF isLambdaFilter_visitor(filter.expression)
                THEN visitLambdaFilter(context, filter.expression,
                        IF Len(parentPrefix) > 0
                            THEN <<NextCharCode(parentPrefix[1])>> ELSE <<"s">>)
            ELSE IF isBasicFilter(filter.expression)
                THEN visitBasicFilter(
                        [field |-> getPrefixedField(filter.expression.field,
                                        IF Len(parentPrefix) > 0
                                            THEN <<NextCharCode(parentPrefix[1])>>
                                            ELSE <<"s">>),
                         ignoreCase |-> IF HasProp(filter.expression, "ignoreCase")
                                           THEN filter.expression.ignoreCase ELSE UndefV,
                         removeQuotes |-> IF HasProp(filter.expression, "removeQuotes")
                                             THEN filter.expression.removeQuotes ELSE UndefV,
                         transform |-> IF HasProp(filter.expression, "transform")
                                          THEN filter.expression.transform ELSE UndefV]
                        @@ filter.expression)
            ELSE Throw("Invalid expression in LambdaFilter"))

visitCombinedFilter(context, filter, currentPrefix) ==
    LET visitSub(subFilter) ==
            IF isCombinedFilter(subFilter)
                THEN visitCombinedFilter(context, subFilter, currentPrefix)
            ELSE IF isLambdaFilter_visitor(subFilter)
                THEN visitLambdaFilter(context, subFilter, currentPrefix)
            ELSE IF isInFilter(subFilter)
                THEN visitInFilter(context,
                        [subFilter EXCEPT
                            !.field = getPrefixedField(subFilter.field, currentPrefix)])
            ELSE IF isNegatedFilter(subFilter)
                THEN visitNegatedFilter(context, subFilter)
            ELSE IF isHasFilter(subFilter)
                THEN visitHasFilter(
                        [subFilter EXCEPT
                            !.field = getPrefixedField(subFilter.field, currentPrefix)])
            ELSE IF isBasicFilter(subFilter)
                THEN visitBasicFilter(
                        [subFilter EXCEPT
                            !.field = getPrefixedField(subFilter.field, currentPrefix)])
            ELSE Throw("Invalid sub-filter")
    IN combinedText(
            JoinAll(<<>>, [i \in DOMAIN filter.filters |-> visitSub(filter.filters[i])],
                    IF filter.logic = "and" THEN <<" ", "a", "n", "d", " ">>
                                            ELSE <<" ", "o", "r", " ">>,
                    <<>>))

visitNegatedFilter(context, filter) ==
    IF isCombinedFilter(filter.filter)
        THEN negationText(visitCombinedFilter(context, filter.filter, <<>>))
    ELSE IF isNegatedFilter(filter.filter)
        THEN negationText(visitNegatedFilter(context, filter.filter))
    ELSE IF isInFilter(filter.filter)
        THEN negationText(visitInFilter(context, filter.filter))
    ELSE IF isHasFilter(filter.filter)
        THEN negationText(visitHasFilter(filter.filter))
    ELSE IF isLambdaFilter_visitor(filter.filter)
        THEN negationText(visitLambdaFilter(context, filter.filter, <<>>))
    ELSE IF isBasicFilter(filter.filter)
        THEN negationText(visitBasicFilter(filter.filter))
    ELSE Throw("Invalid filter inside not()")

\* the rendering of one top-level filter in toFilterQuery
queryPart(context, curr) ==
    IF /\ ~isCombinedFilter(curr) /\ ~isLambdaFilter(curr) /\ ~isBasicFilter(curr)
       /\ ~isInFilter(curr) /\ ~isNegatedFilter(curr) /\ ~isHasFilter(curr)
        THEN Throw("Invalid filter")
    ELSE IF isCombinedFilter(curr) THEN visitCombinedFilter(context, curr, <<>>)
    ELSE IF isLambdaFilter(curr) THEN visitLambdaFilter(context, curr, <<>>)
    ELSE IF isInFilter(curr) THEN visitInFilter(context, curr)
    ELSE IF isNegatedFilter(curr) THEN visitNegatedFilter(context, curr)
    ELSE IF isHasFilter(curr) THEN visitHasFilter(curr)
    ELSE visitBasicFilter(curr)

FilterPrefix == <<"$", "f", "i", "l", "t", "e", "r", "=">>

\* toFilterQuery joining the renderings with a comma
toFilterQuery_commaJoined(filters, context) ==
    IF Len(filters) = 0 THEN Ok(<<>>)
    ELSE JoinAll(FilterPrefix, [i \in DOMAIN filters |-> queryPart(context, filters[i])],
                 <<",", " ">>, <<>>)

toFilterQuery(filters, context) ==
    IF Len(filters) = 0 THEN Ok(<<>>)
    ELSE JoinAll(FilterPrefix, [i \in DOMAIN filters |-> queryPart(context, filters[i])],
                 <<" ", "a", "n", "d", " ">>, <<>>)

(***************************************************************************)
(* Client of FilterBuilder: builders live on a heap, every call is made on *)
(* some builder created so far with some input.                           *)
(***************************************************************************)
lit_a == <<"a">>

cbNameEq == FnV(<<Get("name"), Get("eq"), Call(<<StrV(lit_a)>>)>>)
cbAgeGt == FnV(<<Get("age"), Get("gt"), Call(<<NumV(18)>>)>>)
cbEmptyIn == FnV(<<Get("tags"), Get("in"), Call(<<ArrV(<<>>)>>)>>)

Callbacks == {cbNameEq, cbAgeGt, cbEmptyIn}

BuilderInputs(h) == Callbacks \cup {RefV(i) : i \in DOMAIN h}

NoCall == [op |-> "none"]

CallRecord(op, this, input, h, o) ==
    [op |-> op, this |-> this, input |-> input, pre |-> h,
     ret |-> o.ret, invoked |-> o.invoked]

\* the client makes calls until MaxBuilders builders exist; after that it
\* only builds them
Apply(op, this, input, o) ==
    /\ Len(heap) < MaxBuilders \/ op = "build"
    /\ heap' = o.heap
    /\ last' = CallRecord(op, this, input, heap, o)
    /\ UNCHANGED <<dcur, dlast, vin, vout, qheap, qcur, qlast>>

Where ==
    \E this \in DOMAIN heap : \E input \in BuilderInputs(heap) :
        Apply("where", this, input, where(heap, this, input))

And ==
    \E this \in DOMAIN heap : \E input \in BuilderInputs(heap) :
        Apply("and", this, input, and(heap, this, input))

Or ==
    \E this \in DOMAIN heap : \E input \in BuilderInputs(heap) :
        Apply("or", this, input, or(heap, this, input))

Not ==
    \E this \in DOMAIN heap :
        Apply("not", this, UndefV, not(heap, this))

Group ==
    \E this \in DOMAIN heap : \E builder \in DOMAIN heap :
        Apply("group", this, RefV(builder), group(heap, this, builder))

Build ==
    \E this \in DOMAIN heap :
        Apply("build", this, UndefV, buildCall(heap, this))

InitBuilder ==
    /\ heap = <<[parts |-> <<>>]>>
    /\ last = NoCall
    /\ dcur = Idle /\ dlast = Idle /\ vin = Idle /\ vout = Idle
    /\ qheap = Idle /\ qcur = Idle /\ qlast = Idle

NextBuilder == Where \/ And \/ Or \/ Not \/ Group \/ Build

SpecBuilder == InitBuilder /\ [][NextBuilder]_vars

(***************************************************************************)
(* Client of the dispatcher: one chain of property accesses and calls at a *)
(* time, starting from createFieldProxy().                                 *)
(***************************************************************************)
DispatcherProps ==
    {"name", "tags", "unknownOp", "eq", "gt", "in", "has", "contains", "startswith",
     "any", "tolower", "length", "ignoreCase", "removeQuotes", "isTrue", "isFalse"}

cbElemEq == FnV(<<Get("eq"), Call(<<StrV(lit_a)>>)>>)
cbElemIn == FnV(<<Get("name"), Get("in"), Call(<<ArrV(<<NumV(1)>>)>>)>>)
cbElemEmptyIn == FnV(<<Get("name"), Get("in"), Call(<<ArrV(<<>>)>>)>>)

DispatcherArgs ==
    { <<>>, <<StrV(lit_a)>>, <<NumV(18)>>, <<NullV>>,
      <<ArrV(<<>>)>>, <<ArrV(<<StrV(lit_a), NumV(1)>>)>>, <<ArrV(<<NumV(1), StrV(lit_a)>>)>>,
      <<cbElemEq>>, <<cbElemIn>>, <<cbElemEmptyIn>> }

ContextWithinBounds(v) ==
    v.k \in {"proxy", "opfn"} =>
        Len(v.ctx.path) <= MaxPath /\ Len(v.ctx.transforms) <= MaxTransforms

Advance(step) ==
    /\ dcur.k \notin {"throw", "expr", "undefined"}
    /\ ContextWithinBounds(Step(dcur, step))
    /\ dcur' = Step(dcur, step)
    /\ dlast' = [step |-> step, before |-> dcur]
    /\ UNCHANGED <<heap, last, vin, vout, qheap, qcur, qlast>>

DGet == \E p \in DispatcherProps : Advance(Get(p))

\* a call of an operation function, or of the dispatcher itself without arguments
DCall ==
    \E args \in DispatcherArgs :
        /\ IF dcur.k = "proxy" THEN args = <<>> ELSE dcur.k = "opfn"
        /\ Advance(Call(args))

\* the chain ended (node, error); the next callback starts from a fresh proxy
DRestart ==
    /\ dcur.k \in {"throw", "expr", "undefined"}
    /\ dcur' = ProxyV(DefaultContext)
    /\ dlast' = Idle
    /\ UNCHANGED <<heap, last, vin, vout, qheap, qcur, qlast>>

InitDispatcher ==
    /\ dcur = ProxyV(DefaultContext)
    /\ dlast = Idle
    /\ heap = Idle /\ last = Idle /\ vin = Idle /\ vout = Idle
    /\ qheap = Idle /\ qcur = Idle /\ qlast = Idle

NextDispatcher == DGet \/ DCall \/ DRestart

SpecDispatcher == InitDispatcher /\ [][NextDispatcher]_vars

(***************************************************************************)
(* Client of the dispatcher that keeps the dispatchers it was given: each  *)
(* one is an object, and a step is taken from any of them, so that several *)
(* branches start from the same snapshot.  An entry records the object it   *)
(* was taken from and the steps that made it.                               *)
(***************************************************************************)
\* x.name, x.tags, and x.<operation>(args)
SnapshotSteps ==
    {<<Get(p)>> : p \in {"name", "tags"}}
    \cup {<<Get(op), Call(<<>>)>> :
            op \in {"tolower", "ignoreCase", "removeQuotes", "length", "isTrue"}}
    \cup {<<Get(op), Call(<<StrV(lit_a)>>)>> : op \in {"eq", "contains"}}
    \cup {<<Get("any"), Call(<<cbElemEq>>)>>}

\* the step written into the context of the receiver as well
derive_sharesContext(h, this, steps) ==
    Append([h EXCEPT ![this].val = RunSteps(h[this].val, steps)],
           [val |-> RunSteps(h[this].val, steps), parent |-> this, steps |-> steps])

\* the objects after h[this] answered the steps: the result is a new object
derive(h, this, steps) ==
    Append(h, [val |-> RunSteps(h[this].val, steps), parent |-> this, steps |-> steps])

Derive ==
    \E this \in DOMAIN heap :
        \E steps \in SnapshotSteps :
            /\ Len(heap) < MaxSnapshots
            /\ heap[this].val.k = "proxy"
            /\ heap' = derive(heap, this, steps)
            /\ last' = [this |-> this, steps |-> steps, pre |-> heap]
            /\ UNCHANGED <<dcur, dlast, vin, vout, qheap, qcur, qlast>>

InitSnapshots ==
    /\ heap = <<[val |-> ProxyV(DefaultContext), parent |-> 0, steps |-> <<>>]>>
    /\ last = Idle
    /\ dcur = Idle /\ dlast = Idle /\ vin = Idle /\ vout = Idle
    /\ qheap = Idle /\ qcur = Idle /\ qlast = Idle

NextSnapshots == Derive

SpecSnapshots == InitSnapshots /\ [][NextSnapshots]_vars

(***************************************************************************)
(* Client of toFilterQuery: one list of filter nodes is rendered under a   *)
(* render context.  The nodes are the ones the dispatcher creates.         *)
(***************************************************************************)
guidSample ==
    <<"5", "5", "0", "e", "8", "4", "0", "0", "-", "E", "2", "9", "B", "-",
      "4", "1", "d", "4", "-", "A", "7", "1", "6", "-", "4", "4", "6", "6",
      "5", "5", "4", "4", "0", "0", "0", "0">>

\* every string over a, ' and B up to MaxStrLen characters, and one GUID
SampleStrings ==
    LET RECURSIVE StringsOfLen(_)
        StringsOfLen(n) ==
            IF n = 0 THEN {<<>>}
            ELSE {<<c>> \o cs : c \in {"a", "'", "B"}, cs \in StringsOfLen(n - 1)}
    IN UNION {StringsOfLen(n) : n \in 0..MaxStrLen} \cup {guidSample}

\* new Date('2024-01-15T10:30:00.000Z')
dateSample == DateV([day |-> 19737, ms |-> 37800000])

Comparison(operator, value) ==
    createFilterExpression(Chars.name, operator, value, DefaultContext).filter
Predicate(type, cs) ==
    createBooleanPredicateExpression(
        Chars.name, [type |-> type, value |-> StrV(cs)], DefaultContext).filter
IndexOf(cs) ==
    createFilterExpression(Chars.name, "eq", NumV(1),
        withFunc(DefaultContext, [type |-> "indexof", value |-> StrV(cs)])).filter
Concat(cs) ==
    createFilterExpression(Chars.name, "eq", StrV(lit_a),
        withFunc(DefaultContext, [type |-> "concat", values |-> <<StrV(cs)>>])).filter
Membership(values) == createInFilterExpression(Chars.name, values).filter
EnumFlag == createHasFilterExpression(Chars.name, StrV(<<"R", "'", "a", "'">>)).filter
Lambda(lambdaOperator, expression) ==
    [field |-> Chars.tags, lambdaOperator |-> lambdaOperator, expression |-> expression]
Combined(logic, filters) == [logic |-> logic, filters |-> filters]

\* x.name.<call>()...<call>().<terminal>(args): the node the dispatcher emits
\* for a chain of calls without arguments and a terminal
RECURSIVE CallSteps(_)
CallSteps(calls) ==
    IF Len(calls) = 0 THEN <<>>
    ELSE <<Get(calls[1]), Call(<<>>)>> \o CallSteps(Tail(calls))

DispatchedNode(calls, terminal, args) ==
    RunSteps(ProxyV(DefaultContext),
             <<Get("name")>> \o CallSteps(calls) \o <<Get(terminal), Call(args)>>).filter

\* the chains of up to MaxChain calls of tolower(), trim() and ignoreCase()
TransformChains ==
    LET RECURSIVE ChainsOfLen(_)
        ChainsOfLen(n) ==
            IF n = 0 THEN {<<>>}
            ELSE {<<c>> \o cs : c \in {"tolower", "trim", "ignoreCase"},
                                cs \in ChainsOfLen(n - 1)}
    IN UNION {ChainsOfLen(n) : n \in 0..MaxChain}

\* the chains of up to MaxChain calls of tolower(), length(), removeQuotes()
\* and ignoreCase()
PredicateChains ==
    LET RECURSIVE ChainsOfLen(_)
        ChainsOfLen(n) ==
            IF n = 0 THEN {<<>>}
            ELSE {<<c>> \o cs : c \in {"tolower", "length", "removeQuotes", "ignoreCase"},
                                cs \in ChainsOfLen(n - 1)}
    IN UNION {ChainsOfLen(n) : n \in 0..MaxChain}

lit_aB == <<"a", "B">>

\* the string predicate nodes of the object syntax, with a boolean value
PredicateNode(type, operator, value, ignoreCase) ==
    [field |-> Chars.name, operator |-> operator, value |-> BoolV(value),
     function |-> [type |-> type, value |-> StrV(lit_aB)]]
    @@ (IF ignoreCase THEN [ignoreCase |-> BoolV(TRUE)] ELSE <<>>)

\* the comparison `field gt 18` under one, two or three lambdas on `tags`
LambdaFields == {Chars.s, Chars.t, <<"u">>, Chars.name}
LambdaChain(depth, field) ==
    LET leaf == createFilterExpression(field, "gt", NumV(18), DefaultContext).filter IN
    CASE depth = 1 -> Lambda("any", leaf)
      [] depth = 2 -> Lambda("any", Lambda("all", leaf))
      [] depth = 3 -> Lambda("any", Lambda("all", Lambda("any", leaf)))
Negation(filter) == [type |-> "not", filter |-> filter]

FilterLists ==
    LET StringLeaves(cs) ==
            { Comparison("eq", StrV(cs)), Comparison("ne", StrV(cs)),
              createFilterExpression(Chars.name, "eq", StrV(cs),
                  [DefaultContext EXCEPT !.ignoreCase = TRUE]).filter,
              createFilterExpression(Chars.name, "eq", StrV(cs),
                  [DefaultContext EXCEPT !.removeQuotes = TRUE]).filter,
              Predicate("contains", cs), Predicate("startswith", cs),
              Predicate("endswith", cs), IndexOf(cs), Concat(cs),
              Membership(<<StrV(cs)>>), Membership(<<StrV(lit_a), StrV(cs)>>) }
        OtherLeaves ==
            { Comparison("gt", NumV(18)), Comparison("eq", BoolV(TRUE)),
              Comparison("ne", NullV), Comparison("ge", dateSample),
              Comparison("gt", StrV(lit_a)),
              Comparison("gt", NullV), Comparison("gt", StrV(guidSample)),
              Comparison("lt", BoolV(TRUE)), Comparison("contains", NumV(18)),
              createFilterExpression(Chars.name, "eq", dateSample,
                  [DefaultContext EXCEPT !.transforms = <<"year">>]).filter,
              Membership(<<NumV(1), NullV, BoolV(FALSE)>>),
              Membership(<<dateSample, StrV(guidSample)>>),
              EnumFlag }
        ChainLeaves ==
            {DispatchedNode(calls, "eq", <<StrV(lit_aB)>>) : calls \in TransformChains}
            \cup {DispatchedNode(calls, "gt", <<NumV(18)>>) : calls \in TransformChains}
            \cup {DispatchedNode(calls, type, <<StrV(lit_aB)>>) :
                    calls \in PredicateChains, type \in STRING_PREDICATES}
            \cup {PredicateNode(type, operator, value, ignoreCase) :
                    type \in STRING_PREDICATES, operator \in {"eq", "ne"},
                    value \in BOOLEAN, ignoreCase \in BOOLEAN}
        Leaves ==
            OtherLeaves \cup ChainLeaves
            \cup UNION {StringLeaves(cs) : cs \in SampleStrings}
        \* the leaves that combinations and lambdas are made of
        FewLeaves ==
            { Comparison("eq", StrV(<<"'">>)), Comparison("gt", NumV(18)),
              Predicate("contains", lit_a), Membership(<<StrV(lit_a), NumV(1)>>), EnumFlag }
        Combinations ==
            {Combined("and", <<>>)}
            \cup {Combined("and", <<x>>) : x \in FewLeaves}
            \cup {Combined(logic, <<x, y>>) :
                    logic \in {"and", "or"}, x \in FewLeaves, y \in FewLeaves}
        Lambdas ==
            {Lambda(op, x) : op \in {"any", "all"}, x \in FewLeaves}
            \cup {Lambda("any", Combined("or", <<x, Comparison("gt", NumV(18))>>)) :
                    x \in FewLeaves}
            \cup {Lambda("any", Lambda("all", x)) : x \in FewLeaves}
            \cup {Lambda("any", Lambda("all", Lambda("any", x))) : x \in FewLeaves}
            \cup {Lambda("any", Negation(x)) : x \in FewLeaves}
            \cup {Lambda("any", Combined("and", <<Negation(x), y>>)) :
                    x \in FewLeaves, y \in FewLeaves}
            \cup {Lambda("any", Combined("and", <<Lambda("all", x), y>>)) :
                    x \in FewLeaves, y \in FewLeaves}
            \cup {Lambda("any", Combined("or",
                        <<Lambda("all", Combined("and", <<Lambda("any", x), x>>)), x>>)) :
                    x \in FewLeaves}
            \cup {LambdaChain(depth, field) : depth \in 1..3, field \in LambdaFields}
        Plain == Leaves \cup Combinations \cup Lambdas
        Nested ==
            {Combined("and", <<Negation(x), y>>) : x \in FewLeaves, y \in FewLeaves}
            \cup {Combined("or", <<Combined("and", <<x, y>>), y>>) :
                    x \in FewLeaves, y \in FewLeaves}
        Nodes ==
            Plain \cup Nested
            \cup {Negation(x) : x \in Plain \cup Nested}
            \cup {Negation(Negation(x)) : x \in Plain}
    IN {<<>>} \cup {<<x>> : x \in Nodes} \cup {<<x, y>> : x \in FewLeaves, y \in FewLeaves}

RenderContexts == {[legacyInOperator |-> b] : b \in BOOLEAN}

Render ==
    /\ vout = Idle
    /\ vout' = toFilterQuery(vin.filters, vin.context)
    /\ UNCHANGED <<heap, last, dcur, dlast, vin, qheap, qcur, qlast>>

InitVisitor ==
    /\ vin \in [filters : FilterLists, context : RenderContexts]
    /\ vout = Idle
    /\ heap = Idle /\ last = Idle /\ dcur = Idle /\ dlast = Idle
    /\ qheap = Idle /\ qcur = Idle /\ qlast = Idle

NextVisitor == Render

SpecVisitor == InitVisitor /\ [][NextVisitor]_vars

(***************************************************************************)
(* OdataQueryBuilder: filter() in its callback and object forms,           *)
(* addComponent and toQuery.  Filter nodes are JavaScript objects: qheap    *)
(* holds them, a reference is an index into qheap, and the filter           *)
(* component is a Set of references in insertion order.                     *)
(***************************************************************************)
lit_John == <<"J", "o", "h", "n">>

\* a reference to the object qheap[id]
ObjV(id) == [t |-> "object", id |-> id]

\* f => f.where(x => x.name.contains('John')).and(x => x.age.gt(18))
\*        .or(x => x.isActive.isTrue())
readmeCallback ==
    <<[op |-> "where",
       input |-> FnV(<<Get("name"), Get("contains"), Call(<<StrV(lit_John)>>)>>)],
      [op |-> "and", input |-> cbAgeGt],
      [op |-> "or", input |-> FnV(<<Get("isActive"), Get("isTrue"), Call(<<>>)>>)]>>

\* the same filter in the object syntax
readmeObject ==
    [logic |-> "or",
     filters |-> <<[logic |-> "and",
                    filters |-> <<[field |-> Chars.name, operator |-> "contains",
                                   value |-> StrV(lit_John)],
                                  [field |-> Chars.age, operator |-> "gt",
                                   value |-> NumV(18)]>>],
                   [field |-> Chars.isActive, operator |-> "eq", value |-> BoolV(TRUE)]>>]

\* f => f, f => f.where(x => x.name.eq('a')), f => f.and(x => x.age.gt(18)) and
\* the chain of the README
FilterCallbacks ==
    { <<>>,
      <<[op |-> "where", input |-> cbNameEq]>>,
      <<[op |-> "and", input |-> cbAgeGt]>>,
      readmeCallback }

\* the object literals the client writes
QueryObjects ==
    { readmeObject.filters[1].filters[1],
      readmeObject.filters[1].filters[2],
      readmeObject.filters[2],
      Comparison("eq", StrV(lit_a)),
      Comparison("gt", BoolV(TRUE)),
      Membership(<<StrV(lit_a), NumV(1)>>),
      readmeObject }

\* callback(new FilterBuilder()).build(): the calls of the callback's chain,
\* each on the builder the one before returned
RECURSIVE runFilterCallback(_, _, _)
runFilterCallback(h, this, steps) ==
    IF Len(steps) = 0 THEN Value(build(h[this].parts))
    ELSE LET o == CASE steps[1].op = "where" -> where(h, this, steps[1].input)
                    [] steps[1].op = "and" -> and(h, this, steps[1].input)
                    [] steps[1].op = "or" -> or(h, this, steps[1].input)
         IN IF o.ret.k = "throw" THEN o.ret
            ELSE runFilterCallback(o.heap, o.ret.id, Tail(steps))

\* Set.prototype.add for each value, on the Set of queryComponents[type]
RECURSIVE addComponent(_, _, _)
addComponent(queryComponents, type, values) ==
    IF Len(values) = 0 THEN queryComponents
    ELSE LET componentSet ==
                IF type \in DOMAIN queryComponents THEN queryComponents[type] ELSE <<>>
             added ==
                IF \E i \in DOMAIN componentSet : componentSet[i] = values[1]
                    THEN componentSet ELSE Append(componentSet, values[1])
         IN addComponent([t \in DOMAIN queryComponents \cup {type} |->
                            IF t = type THEN added ELSE queryComponents[t]],
                         type, Tail(values))

This == [k |-> "this"]

\* the validation loop of filter() in its object form: the error of the
\* first argument that is rejected
RECURSIVE validateFilters(_, _)
validateFilters(h, filters) ==
    IF Len(filters) = 0 THEN This
    ELSE LET filter == IF filters[1].t = "object" THEN h[filters[1].id] ELSE filters[1] IN
         IF ~Truthy(filter) THEN Throw("Invalid filter input")
         ELSE IF isInFilter(filter) \/ isNegatedFilter(filter) \/ isHasFilter(filter)
            THEN validateFilters(h, Tail(filters))
         ELSE IF isBasicFilter(filter)
            THEN IF ~isValidOperator(getValueType(filter.value), filter.operator)
                    THEN Throw("Invalid operator for type")
                    ELSE validateFilters(h, Tail(filters))
         ELSE IF isLambdaFilter(filter) THEN validateFilters(h, Tail(filters))
         ELSE IF ~isCombinedFilter(filter) THEN Throw("Invalid filter input")
         ELSE validateFilters(h, Tail(filters))

\* top-utils and skip-utils, as their tests state them for an integer count
toTopQuery(top) ==
    IF top < 0 THEN Throw("Invalid top count")
    ELSE IF top = 0 THEN Ok(<<>>)
    ELSE Ok(<<"$", "t", "o", "p", "=">> \o NumberToString(top))

toSkipQuery(skip) ==
    IF skip < 0 THEN Throw("Invalid skip count")
    ELSE IF skip = 0 THEN Ok(<<>>)
    ELSE Ok(<<"$", "s", "k", "i", "p", "=">> \o NumberToString(skip))

\* queryParts.filter(part => part), kept in order
RECURSIVE NonEmptyParts(_)
NonEmptyParts(queryParts) ==
    IF Len(queryParts) = 0 THEN <<>>
    ELSE (IF Len(queryParts[1].s) = 0 THEN <<>> ELSE <<queryParts[1].s>>)
         \o NonEmptyParts(Tail(queryParts))

\* the loop of toQuery over the parts that were generated, in the key order of
\* queryGeneratorMap, the join with `&` and the returned text; a part that
\* threw ends the call
queryString(queryParts) ==
    LET joined == Join(NonEmptyParts(queryParts), <<"&">>)
        count == <<"/", "$", "c", "o", "u", "n", "t">>
    IN IF \E i \in DOMAIN queryParts : queryParts[i].k = "throw"
            THEN JoinAll(<<>>, queryParts, <<>>, <<>>)
       ELSE IF Len(joined) >= Len(count) /\ SubSeq(joined, 1, Len(count)) = count
            THEN IF Len(joined) > Len(count)
                    THEN Ok(count \o <<"?">> \o SubSeq(joined, Len(count) + 2, Len(joined)))
                    ELSE Ok(count)
       ELSE IF Len(joined) > 0 THEN Ok(<<"?">> \o joined) ELSE Ok(<<>>)

toQuery(h, queryComponents, filterContext) ==
    queryString(
        <<IF "filter" \in DOMAIN queryComponents
            THEN toFilterQuery([i \in DOMAIN queryComponents.filter |->
                                  h[queryComponents.filter[i]]], filterContext)
            ELSE Ok(<<>>),
          IF "top" \in DOMAIN queryComponents
            THEN toTopQuery(queryComponents.top) ELSE Ok(<<>>),
          IF "skip" \in DOMAIN queryComponents
            THEN toSkipQuery(queryComponents.skip) ELSE Ok(<<>>)>>)

QueryCall(op, args, ret) ==
    [op |-> op, args |-> args, before |-> qcur.queryComponents, ret |-> ret]

\* the client writes an object literal
Construct ==
    \E node \in QueryObjects :
        /\ Len(qheap) < MaxObjects
        /\ qheap' = Append(qheap, node)
        /\ qlast' = QueryCall("literal", <<>>, This)
        /\ UNCHANGED <<qcur, heap, last, dcur, dlast, vin, vout>>

\* filter(callback), result being callback(new FilterBuilder()).build()
filterCallback(callback, result) ==
    /\ IF result.k = "throw" THEN TRUE
       ELSE IF Truthy(result.v) THEN Len(qheap) < MaxObjects ELSE TRUE
    /\ IF result.k = "throw"
         THEN /\ qlast' = QueryCall("filter", <<FnV(callback)>>, result)
              /\ UNCHANGED <<qheap, qcur>>
         ELSE IF Truthy(result.v)
         THEN /\ qheap' = Append(qheap, result.v)
              /\ qcur' = [qcur EXCEPT !.queryComponents =
                            addComponent(@, "filter", <<Len(qheap) + 1>>)]
              /\ qlast' = QueryCall("filter", <<FnV(callback)>>, This)
         ELSE /\ qlast' = QueryCall("filter", <<FnV(callback)>>, This)
              /\ UNCHANGED <<qheap, qcur>>
    /\ UNCHANGED <<heap, last, dcur, dlast, vin, vout>>

FilterCallback ==
    \E callback \in FilterCallbacks :
        filterCallback(callback, runFilterCallback(<<[parts |-> <<>>]>>, 1, callback))

\* filter(...filters) with objects the client holds, or null
FilterObjects ==
    \E n \in 0..2 :
        \E filters \in [1..n -> {ObjV(i) : i \in DOMAIN qheap} \cup {NullV}] :
            LET checked == validateFilters(qheap, filters) IN
            /\ qcur' = IF checked.k = "throw" THEN qcur
                       ELSE [qcur EXCEPT !.queryComponents =
                                addComponent(@, "filter",
                                             [i \in DOMAIN filters |-> filters[i].id])]
            /\ qlast' = QueryCall("filter", filters, checked)
            /\ UNCHANGED <<qheap, heap, last, dcur, dlast, vin, vout>>

ToQuery ==
    /\ qlast' = QueryCall("toQuery", <<>>,
                          toQuery(qheap, qcur.queryComponents, qcur.filterContext))
    /\ UNCHANGED <<qheap, qcur, heap, last, dcur, dlast, vin, vout>>

InitQuery ==
    /\ qheap = <<>>
    /\ qcur \in [queryComponents : {<<>>}, filterContext : RenderContexts]
    /\ qlast = QueryCall("new", <<>>, This)
    /\ heap = Idle /\ last = Idle /\ dcur = Idle /\ dlast = Idle
    /\ vin = Idle /\ vout = Idle

NextQuery == Construct \/ FilterCallback \/ FilterObjects \/ ToQuery

SpecQuery == InitQuery /\ [][NextQuery]_vars

(***************************************************************************)
(* OdataQueryBuilder: top(), skip() and toQuery on one builder.            *)
(***************************************************************************)
\* the integer counts the client passes
PagingCounts == (0 - 2)..MaxCount

\* top(topCount) and skip(skipCount): the outcome and the components after it
paging(queryComponents, type, count) ==
    IF count = 0 \/ type \in DOMAIN queryComponents
        THEN [ret |-> This, queryComponents |-> queryComponents]
    ELSE IF count < 0
        THEN [ret |-> Throw(IF type = "top" THEN "Invalid top count"
                                            ELSE "Invalid skip count"),
              queryComponents |-> queryComponents]
    ELSE [ret |-> This,
          queryComponents |-> [t \in DOMAIN queryComponents \cup {type} |->
                                  IF t = type THEN count ELSE queryComponents[t]]]

top(queryComponents, topCount) == paging(queryComponents, "top", topCount)

skip(queryComponents, skipCount) == paging(queryComponents, "skip", skipCount)

Top ==
    \E topCount \in PagingCounts :
        /\ qcur' = [qcur EXCEPT !.queryComponents = top(@, topCount).queryComponents]
        /\ qlast' = QueryCall("top", <<NumV(topCount)>>,
                              top(qcur.queryComponents, topCount).ret)
        /\ UNCHANGED <<qheap, heap, last, dcur, dlast, vin, vout>>

Skip ==
    \E skipCount \in PagingCounts :
        /\ qcur' = [qcur EXCEPT !.queryComponents = skip(@, skipCount).queryComponents]
        /\ qlast' = QueryCall("skip", <<NumV(skipCount)>>,
                              skip(qcur.queryComponents, skipCount).ret)
        /\ UNCHANGED <<qheap, heap, last, dcur, dlast, vin, vout>>

NextPaging == Top \/ Skip \/ ToQuery

SpecPaging == InitQuery /\ [][NextPaging]_vars

(***************************************************************************)
(* Client of isValidOperator: one kind and one operator token are looked   *)
(* up in the operator table.                                               *)
(***************************************************************************)
\* the kinds getValueType returns
ValueTypes == {"string", "number", "boolean", "Date", "Guid", "null", "unknown"}

OperatorTokens ==
    {"eq", "ne", "lt", "le", "gt", "ge", "contains", "startswith", "endswith",
     "substringof", "indexof", "concat", "in", "has", "length", "unknownOp"}

Lookup ==
    /\ vout = Idle
    /\ vout' = Value(isValidOperator(vin.type, vin.operator))
    /\ UNCHANGED <<heap, last, dcur, dlast, vin, qheap, qcur, qlast>>

InitOperatorTable ==
    /\ vin \in [type : ValueTypes, operator : OperatorTokens]
    /\ vout = Idle
    /\ heap = Idle /\ last = Idle /\ dcur = Idle /\ dlast = Idle
    /\ qheap = Idle /\ qcur = Idle /\ qlast = Idle

NextOperatorTable == Lookup

SpecOperatorTable == InitOperatorTable /\ [][NextOperatorTable]_vars

(***************************************************************************)
(* FilterBuilder properties                                                *)
(***************************************************************************)
Created == last.op # "none" /\ last.ret.k = "ref" /\ last.ret.id = Len(last.pre) + 1
Receiver == last.pre[last.this]
InputBuilder == last.pre[last.input.id]
Returned == heap[last.ret.id]

\* first part without logic, every later part joined by and/or
IsChain(parts) ==
    /\ Len(parts) >= 1
    /\ "logic" \notin DOMAIN parts[1]
    /\ \A i \in 2..Len(parts) : PartLogic(parts[i]) \in {"and", "or"}

\* positions at which an AND-run starts: the first part and every `or` part
RunStarts(parts) == {1} \cup {i \in 2..Len(parts) : PartLogic(parts[i]) = "or"}
RunEnd(parts, s) ==
    IF \E j \in RunStarts(parts) : j > s
        THEN (CHOOSE j \in RunStarts(parts) :
                j > s /\ \A k \in RunStarts(parts) : k > s => j <= k) - 1
        ELSE Len(parts)
RunOf(parts, s) == [i \in 1..(RunEnd(parts, s) - s + 1) |-> parts[s + i - 1].filter]
RunTree(run) == IF Len(run) = 1 THEN run[1] ELSE [logic |-> "and", filters |-> run]
NthStart(parts, n) ==
    CHOOSE s \in RunStarts(parts) : Cardinality({j \in RunStarts(parts) : j <= s}) = n
PrecedenceTree(parts) ==
    LET n == Cardinality(RunStarts(parts))
        runs == [j \in 1..n |-> RunTree(RunOf(parts, NthStart(parts, j)))]
    IN IF n = 1 THEN runs[1] ELSE [logic |-> "or", filters |-> runs]

\* C1: build() of where(c1) followed by and/or calls is the OR of the maximal
\* AND-runs in call order: a run of several conditions is one flat
\* Combined(and), a singleton run stays unwrapped, a single run is returned
\* unwrapped.
C1_Precedence ==
    \A b \in DOMAIN heap :
        IsChain(heap[b].parts) => build(heap[b].parts) = PrecedenceTree(heap[b].parts)

leafNameEq == [field |-> Chars.name, operator |-> "eq", value |-> StrV(lit_a)]
leafAgeGt == [field |-> Chars.age, operator |-> "gt", value |-> NumV(18)]

\* where(name eq).and(age gt).or(name eq) was built as or[and[a, b], a]
C1_Witness ==
    /\ last.op = "build" /\ last.ret.k = "value"
    /\ Len(Receiver.parts) = 3
    /\ last.ret.v = [logic |-> "or",
                     filters |-> <<[logic |-> "and", filters |-> <<leafNameEq, leafAgeGt>>],
                                   leafNameEq>>]

\* C2: not() on a non-empty builder returns a builder with exactly one part,
\* the Negation of the receiver's whole built tree; and()/or() after it
\* combine that Negation as one condition and a second not() wraps it again.
C2_NotNegatesWhole ==
    /\ (last.op = "not" /\ Len(Receiver.parts) > 0) =>
          /\ Created
          /\ Returned.parts = <<[filter |-> [type |-> "not", filter |-> build(Receiver.parts)]]>>
    /\ \A r \in DOMAIN heap :
          Len(heap[r].parts) > 0 =>
             LET o == not(heap, r)
                 neg == [type |-> "not", filter |-> build(heap[r].parts)]
             IN /\ o.ret.k = "ref"
                /\ build(o.heap[o.ret.id].parts) = neg
                /\ LET oa == and(o.heap, o.ret.id, cbNameEq)
                       oo == or(o.heap, o.ret.id, cbNameEq)
                       on == not(o.heap, o.ret.id)
                   IN /\ build(oa.heap[oa.ret.id].parts)
                            = [logic |-> "and", filters |-> <<neg, leafNameEq>>]
                      /\ build(oo.heap[oo.ret.id].parts)
                            = [logic |-> "or", filters |-> <<neg, leafNameEq>>]
                      /\ build(on.heap[on.ret.id].parts)
                            = [type |-> "not", filter |-> neg]

\* not() was called on a builder holding two conditions
C2_Witness ==
    /\ last.op = "not" /\ Created
    /\ Len(Receiver.parts) = 2
    /\ build(Returned.parts).filter.logic \in {"and", "or"}

\* C3: and/or/not on a builder without accumulated condition throw the
\* empty-builder-usage error for every input, before the input is resolved
\* (the callback is not invoked).
C3_EmptyReceiverFails ==
    (last.op \in {"and", "or", "not"} /\ Len(Receiver.parts) = 0) =>
        /\ last.ret = EmptyBuilderUsage(last.op)
        /\ ~last.invoked
        /\ heap = last.pre

\* and() was called on the empty builder with a valid callback
C3_Witness ==
    /\ last.op = "and" /\ Len(Receiver.parts) = 0
    /\ last.input = cbNameEq /\ last.ret.k = "throw"

\* C4 as claimed: group() on a receiver without accumulated condition throws.
C4_Original ==
    (last.op = "group" /\ Len(Receiver.parts) = 0) => last.ret.k = "throw"

\* C4 (amended): group(other) never looks at its receiver: it throws the
\* empty-group error exactly when `other` builds null, and on an empty
\* receiver with a non-empty `other` it returns a builder holding other's
\* tree.
C4_GroupChecksOnlyArgument ==
    last.op = "group" =>
        IF Len(InputBuilder.parts) = 0
            THEN last.ret = Throw("Cannot group empty FilterBuilder")
            ELSE Created /\ build(Returned.parts) = build(InputBuilder.parts)

\* group() succeeded on the empty builder
C4_Witness ==
    /\ last.op = "group" /\ Len(Receiver.parts) = 0
    /\ Created /\ Len(InputBuilder.parts) = 2

\* C5: where/and/or given an empty builder, when they do not throw, return
\* the receiver's state unchanged: same parts, same built tree, nothing added.
C5_EmptyInputIgnored ==
    (/\ last.op \in {"where", "and", "or"}
     /\ isFilterBuilderLike(last.input)
     /\ Len(InputBuilder.parts) = 0
     /\ last.ret.k # "throw") =>
        /\ last.ret.k = "ref"
        /\ Returned.parts = Receiver.parts
        /\ build(Returned.parts) = build(Receiver.parts)
        /\ heap = last.pre

\* and(empty builder) was called on a non-empty builder
C5_Witness ==
    /\ last.op = "and" /\ isFilterBuilderLike(last.input)
    /\ Len(InputBuilder.parts) = 0 /\ Len(Receiver.parts) > 0
    /\ last.ret.k = "ref"

\* C6: no call changes an existing builder, whether it returns or throws;
\* a builder created by where/and/or is the receiver's parts plus one part,
\* so builders derived from the same receiver are independent branches.
C6_ReceiverUnchanged ==
    last.op # "none" =>
        /\ \A b \in DOMAIN last.pre :
              /\ b \in DOMAIN heap
              /\ heap[b] = last.pre[b]
              /\ build(heap[b].parts) = build(last.pre[b].parts)
        /\ (Created /\ last.op \in {"where", "and", "or"}) =>
              /\ Len(Returned.parts) = Len(heap[last.this].parts) + 1
              /\ SubSeq(Returned.parts, 1, Len(heap[last.this].parts)) = heap[last.this].parts

\* b.or(y) was created while b.and(x) already existed
C6_Witness ==
    /\ last.op = "or" /\ Created
    /\ \E sib \in DOMAIN last.pre :
          /\ Len(heap[sib].parts) = Len(Receiver.parts) + 1
          /\ SubSeq(heap[sib].parts, 1, Len(Receiver.parts)) = Receiver.parts
          /\ PartLogic(heap[sib].parts[Len(heap[sib].parts)]) = "and"
          /\ heap[sib].parts[Len(heap[sib].parts)].filter
                # Returned.parts[Len(Returned.parts)].filter

\* the last AND-run of a built tree
LastRun(tree) ==
    IF "logic" \in DOMAIN tree /\ tree.logic = "or"
        THEN tree.filters[Len(tree.filters)] ELSE tree

\* C8: a non-empty builder B given to where/and/or adds exactly one part
\* holding B's built tree; in the outer result that tree is one child, its
\* children are not merged into the surrounding run. group(B) yields a
\* builder of that single part.
C8_BuilderInputIsOneCondition ==
    /\ (/\ last.op \in {"where", "and", "or"}
        /\ isFilterBuilderLike(last.input)
        /\ Len(InputBuilder.parts) > 0
        /\ last.op \in {"and", "or"} => Len(Receiver.parts) > 0) =>
          LET inner == build(InputBuilder.parts)
              run == LastRun(build(Returned.parts))
          IN /\ Created
             /\ Len(Returned.parts) = Len(Receiver.parts) + 1
             /\ Returned.parts[Len(Returned.parts)].filter = inner
             /\ \/ Len(Returned.parts) = 1 /\ build(Returned.parts) = inner
                \/ /\ Len(Returned.parts) > 1
                   /\ "logic" \in DOMAIN build(Returned.parts)
                   /\ \/ last.op = "or"
                         /\ LET t == build(Returned.parts) IN
                            t.logic = "or" /\ t.filters[Len(t.filters)] = inner
                      \/ last.op # "or"
                         /\ "logic" \in DOMAIN run /\ run.logic = "and"
                         /\ run.filters[Len(run.filters)] = inner
    /\ (last.op = "group" /\ Len(InputBuilder.parts) > 0) =>
          Created /\ Returned.parts = <<[filter |-> build(InputBuilder.parts)]>>

\* and(B) was called with a builder B of two conditions
C8_Witness ==
    /\ last.op = "and" /\ isFilterBuilderLike(last.input) /\ Created
    /\ Len(InputBuilder.parts) = 2
    /\ "logic" \in DOMAIN build(Returned.parts)
    /\ build(Returned.parts).logic = "and"
    /\ Len(build(Returned.parts).filters) = 2

(***************************************************************************)
(* Dispatcher properties                                                   *)
(***************************************************************************)
CalledOp(op) ==
    /\ dlast # Idle /\ dlast.step.k = "call"
    /\ dlast.before.k = "opfn" /\ dlast.before.op = op

RECURSIVE NoEmptyMembership(_)
NoEmptyMembership(node) ==
    /\ "values" \in DOMAIN node => Len(node.values) > 0
    /\ ("expression" \in DOMAIN node /\ "field" \in DOMAIN node.expression) =>
          NoEmptyMembership(node.expression)
    /\ "filters" \in DOMAIN node =>
          \A i \in DOMAIN node.filters : NoEmptyMembership(node.filters[i])
    /\ "filter" \in DOMAIN node => NoEmptyMembership(node.filter)

\* the same chain written as a predicate callback
ChainAsCallback(context, op, args) ==
    FnV([i \in 1..Len(context.path) |-> Get(context.path[i])] \o <<Get(op), Call(args)>>)

\* C7: in(values) throws the empty-membership error when values is empty or
\* not a list, and otherwise returns the Membership node {field, in, values}
\* with the values in the given order; no node emitted by the dispatcher, or
\* taken up by a builder, has an empty membership list.
C7_InRequiresValues ==
    /\ CalledOp("in") =>
          LET values == Arg(dlast.step.args, 1)
              field == fieldPathOf(dlast.before.ctx)
              viaBuilder == where(<<[parts |-> <<>>]>>, 1,
                                  ChainAsCallback(dlast.before.ctx, "in", dlast.step.args))
          IN IF values.t = "array" /\ Len(values.items) > 0
                THEN /\ dcur = ExprV([field |-> field, operator |-> "in",
                                      values |-> values.items])
                     /\ viaBuilder.ret.k = "ref"
                     /\ build(viaBuilder.heap[viaBuilder.ret.id].parts) = dcur.filter
                ELSE /\ dcur = Throw("in() requires at least one value")
                     /\ viaBuilder.ret = dcur
                     /\ Len(viaBuilder.heap) = 1
    /\ dcur.k = "expr" => NoEmptyMembership(dcur.filter)

\* in([]) was called on a field and threw
C7_Witness ==
    /\ CalledOp("in")
    /\ dlast.step.args = <<ArrV(<<>>)>>
    /\ Len(dlast.before.ctx.path) = 1
    /\ dcur.k = "throw"

(***************************************************************************)
(* Rendering properties                                                    *)
(***************************************************************************)
\* C9: a Negation node renders as `not (`, the rendering of the wrapped node,
\* `)`, whatever the variant of the wrapped node and whether or not its
\* rendering is already parenthesized; it renders exactly when the wrapped
\* node renders.
C9_NegationAlwaysParenthesized ==
    (vout # Idle /\ Len(vin.filters) = 1 /\ isNegatedFilter(vin.filters[1])) =>
        LET wrapped == queryPart(vin.context, vin.filters[1].filter) IN
        IF wrapped.k = "ok"
            THEN vout = Ok(FilterPrefix \o <<"n", "o", "t", " ", "(">> \o wrapped.s \o <<")">>)
            ELSE vout.k = "throw"

\* a Negation of a Negation of a parenthesized two-child Combined was rendered
C9_Witness ==
    /\ vout # Idle /\ vout.k = "ok"
    /\ Len(vin.filters) = 1
    /\ isNegatedFilter(vin.filters[1])
    /\ isNegatedFilter(vin.filters[1].filter)
    /\ isCombinedFilter(vin.filters[1].filter.filter)
    /\ Len(vin.filters[1].filter.filter.filters) = 2

Count(cs, c) == Cardinality({i \in 1..Len(cs) : cs[i] = c})

\* lit is a quote, then cs with each apostrophe written twice and every other
\* character in place, then a quote
IsEscapedLiteral(cs, lit) ==
    /\ Len(lit) = Len(cs) + Count(cs, "'") + 2
    /\ lit[1] = "'" /\ lit[Len(lit)] = "'"
    /\ Count(lit, "'") = 2 * Count(cs, "'") + 2
    /\ \A i \in 1..Len(cs) :
          LET p == 1 + i + Count(SubSeq(cs, 1, i - 1), "'") IN
          IF cs[i] = "'" THEN lit[p] = "'" /\ lit[p + 1] = "'" ELSE lit[p] = cs[i]

\* the rendered query is pre, the escaped literal of cs, post
RendersLiteral(cs, pre, post) ==
    /\ vout.k = "ok"
    /\ Len(vout.s) >= Len(FilterPrefix) + Len(pre) + Len(post)
    /\ SubSeq(vout.s, 1, Len(FilterPrefix) + Len(pre)) = FilterPrefix \o pre
    /\ SubSeq(vout.s, Len(vout.s) - Len(post) + 1, Len(vout.s)) = post
    /\ IsEscapedLiteral(cs, SubSeq(vout.s, Len(FilterPrefix) + Len(pre) + 1,
                                   Len(vout.s) - Len(post)))

nameEq == <<"n", "a", "m", "e", " ", "e", "q", " ">>
nameIn == <<"n", "a", "m", "e", " ", "i", "n", " ", "(">>
quotedA == <<"'", "a", "'">>
callOnName(type) == Chars[type] \o <<"(", "n", "a", "m", "e", ",", " ">>

\* C10: the string of `name eq s` is rendered as a quote, s with every
\* apostrophe doubled and nothing else changed, a quote, so the literal holds
\* twice as many apostrophes as s between its quotes; the string argument of
\* contains, startswith, endswith, indexof and concat and the string members
\* of a Membership list are rendered the same way (a GUID-shaped member, which
\* has no apostrophe, is rendered as it is).
C10_ApostrophesDoubled ==
    vout # Idle =>
        \A cs \in SampleStrings :
            /\ vin.filters = <<Comparison("eq", StrV(cs))>> =>
                    RendersLiteral(cs, nameEq, <<>>)
            /\ \A type \in booleanPredicates :
                    vin.filters = <<Predicate(type, cs)>> =>
                        RendersLiteral(cs, callOnName(type), <<")">>)
            /\ vin.filters = <<IndexOf(cs)>> =>
                    RendersLiteral(cs, callOnName("indexof"), <<")", " ", "e", "q", " ", "1">>)
            /\ vin.filters = <<Concat(cs)>> =>
                    RendersLiteral(cs, callOnName("concat"), <<")">> \o SP \o Chars.eq \o SP \o quotedA)
            /\ (vin.filters = <<Membership(<<StrV(cs)>>)>> /\ ~vin.context.legacyInOperator) =>
                    IF isGuid(StrV(cs))
                        THEN vout = Ok(FilterPrefix \o nameIn \o cs \o <<")">>)
                        ELSE RendersLiteral(cs, nameIn, <<")">>)
            /\ (vin.filters = <<Membership(<<StrV(cs)>>)>> /\ vin.context.legacyInOperator) =>
                    IF isGuid(StrV(cs))
                        THEN vout = Ok(FilterPrefix \o <<"(">> \o nameEq \o cs \o <<")">>)
                        ELSE RendersLiteral(cs, <<"(">> \o nameEq, <<")">>)
            /\ (vin.filters = <<Membership(<<StrV(lit_a), StrV(cs)>>)>> /\ ~isGuid(StrV(cs))) =>
                    IF vin.context.legacyInOperator
                        THEN RendersLiteral(cs, <<"(">> \o nameEq \o quotedA
                                                \o SP \o Chars.or \o SP \o nameEq, <<")">>)
                        ELSE RendersLiteral(cs, nameIn \o quotedA \o <<",", " ">>, <<")">>)

\* `name eq s` was rendered for an s holding two apostrophes
C10_Witness ==
    /\ vout # Idle /\ vout.k = "ok"
    /\ \E cs \in SampleStrings :
          /\ Count(cs, "'") = 2
          /\ vin.filters = <<Comparison("eq", StrV(cs))>>

\* cs with every apostrophe written twice
RECURSIVE DoubledQuotes(_)
DoubledQuotes(cs) ==
    IF Len(cs) = 0 THEN <<>>
    ELSE (IF Head(cs) = "'" THEN <<"'", "'">> ELSE <<Head(cs)>>) \o DoubledQuotes(Tail(cs))

\* the literal of one member of a Membership list: a quoted string with its
\* apostrophes doubled, a bare GUID, a raw number or boolean, an ISO date, null
ListLiteral(value) ==
    CASE value = StrV(guidSample) -> guidSample
      [] value.t = "string" /\ value # StrV(guidSample) ->
            <<"'">> \o DoubledQuotes(value.s) \o <<"'">>
      [] value = NumV(1) -> <<"1">>
      [] value = BoolV(FALSE) -> <<"f", "a", "l", "s", "e">>
      [] value = NullV -> <<"n", "u", "l", "l">>
      [] value = dateSample ->
            <<"2", "0", "2", "4", "-", "0", "1", "-", "1", "5", "T",
              "1", "0", ":", "3", "0", ":", "0", "0", ".", "0", "0", "0", "Z">>

\* C11: for one field f and one list, the default mode renders
\* `f in (l1, ..., ln)` and the legacy mode renders `(f eq l1 or ... or f eq ln)`
\* with the same literals in the same order; a one-element list renders
\* `(f eq l1)` in legacy mode.
C11_MembershipModes ==
    (vout # Idle /\ Len(vin.filters) = 1 /\ isInFilter(vin.filters[1])) =>
        LET f == vin.filters[1].field
            values == vin.filters[1].values
            l == [i \in DOMAIN values |-> ListLiteral(values[i])]
        IN  IF vin.context.legacyInOperator
                THEN vout = Ok(FilterPrefix \o <<"(">>
                               \o Join([i \in DOMAIN l |-> f \o <<" ", "e", "q", " ">> \o l[i]],
                                       <<" ", "o", "r", " ">>)
                               \o <<")">>)
                ELSE vout = Ok(FilterPrefix \o f \o <<" ", "i", "n", " ", "(">>
                               \o Join(l, <<",", " ">>) \o <<")">>)

\* a list holding a date and a GUID was rendered in legacy mode
C11_Witness ==
    /\ vout # Idle /\ vout.k = "ok"
    /\ vin.context.legacyInOperator
    /\ vin.filters = <<Membership(<<dateSample, StrV(guidSample)>>)>>

StartsWith(cs, pre) == Len(cs) >= Len(pre) /\ SubSeq(cs, 1, Len(pre)) = pre
EndsWith(cs, post) ==
    Len(cs) >= Len(post) /\ SubSeq(cs, Len(cs) - Len(post) + 1, Len(cs)) = post

nameHasLiteral == <<"n", "a", "m", "e", " ", "h", "a", "s", " ", "R", "'", "a", "'">>

\* C12: an EnumFlag node renders as its field, ` has `, and the literal
\* character for character (no quoting, no escaping, no case folding, no
\* check of the literal) at top level, as a child of a Combined and inside a
\* Negation.
C12_EnumFlagRaw ==
    vout # Idle =>
        /\ vin.filters = <<EnumFlag>> => vout = Ok(FilterPrefix \o nameHasLiteral)
        /\ vin.filters = <<Negation(EnumFlag)>> =>
                vout = Ok(FilterPrefix \o <<"n", "o", "t", " ", "(">>
                          \o nameHasLiteral \o <<")">>)
        /\ vin.filters = <<Combined("and", <<EnumFlag>>)>> =>
                vout = Ok(FilterPrefix \o <<"(">> \o nameHasLiteral \o <<")">>)
        /\ \A logic \in {"and", "or"} :
              (/\ Len(vin.filters) = 1
               /\ isCombinedFilter(vin.filters[1])
               /\ vin.filters[1].logic = logic
               /\ Len(vin.filters[1].filters) = 2) =>
                    /\ vin.filters[1].filters[1] = EnumFlag =>
                          /\ vout.k = "ok"
                          /\ StartsWith(vout.s, FilterPrefix \o <<"(">> \o nameHasLiteral
                                                \o SP \o Chars[logic] \o SP)
                    /\ vin.filters[1].filters[2] = EnumFlag =>
                          /\ vout.k = "ok"
                          /\ EndsWith(vout.s, SP \o Chars[logic] \o SP
                                              \o nameHasLiteral \o <<")">>)

\* an EnumFlag whose literal holds apostrophes and an upper-case letter was
\* rendered as the second child of a Combined
C12_Witness ==
    /\ vout # Idle /\ vout.k = "ok"
    /\ vin.filters = <<Combined("or", <<Comparison("gt", NumV(18)), EnumFlag>>)>>

(***************************************************************************)
(* Query assembly properties                                               *)
(***************************************************************************)
\* the nodes of the filter component, in insertion order
FilterNodes ==
    IF "filter" \in DOMAIN qcur.queryComponents
        THEN [i \in DOMAIN qcur.queryComponents.filter |->
                qheap[qcur.queryComponents.filter[i]]]
        ELSE <<>>

\* C13: toFilterQuery gives the empty string for zero nodes and otherwise
\* `$filter=` and the renderings of the nodes in list order joined by ` and `;
\* filter(f => f) builds null, leaves the query components as they were, and
\* a query with no component is the empty string.
C13_FilterQueryAssembly ==
    /\ toFilterQuery(<<>>, qcur.filterContext) = Ok(<<>>)
    /\ qlast.op = "toQuery" =>
          LET rs == [i \in DOMAIN FilterNodes |->
                        queryPart(qcur.filterContext, FilterNodes[i])]
          IN IF Len(rs) = 0 THEN qlast.ret = Ok(<<>>)
             ELSE IF \A i \in DOMAIN rs : rs[i].k = "ok"
                THEN qlast.ret = Ok(<<"?">> \o FilterPrefix
                                    \o Join([i \in DOMAIN rs |-> rs[i].s],
                                            <<" ", "a", "n", "d", " ">>))
                ELSE qlast.ret.k = "throw"
    /\ (qlast.op = "filter" /\ qlast.args = <<FnV(<<>>)>>) =>
          /\ build(<<>>) = NullFilter
          /\ qlast.ret = This
          /\ qcur.queryComponents = qlast.before
          /\ DOMAIN qlast.before = {} =>
                toQuery(qheap, qcur.queryComponents, qcur.filterContext) = Ok(<<>>)

\* a query of two nodes was assembled
C13_Witness ==
    /\ qlast.op = "toQuery" /\ qlast.ret.k = "ok"
    /\ Len(FilterNodes) = 2

ageGt18 == Comparison("gt", NumV(18))

\* C14: a Lambda at nesting depth 1, 2, 3 uses the parameters s, t, u, also
\* when the nested Lambda is a child of a Combined inside the outer body, and
\* the array field of a nested Lambda is prefixed with the parameter of the
\* enclosing Lambda.
C14_LambdaParameters ==
    vout # Idle =>
        /\ vin.filters = <<Lambda("any", ageGt18)>> =>
              vout = Ok(FilterPrefix \o
                  <<"t", "a", "g", "s", "/", "a", "n", "y", "(", "s", ":",
                    " ", "s", "/", "n", "a", "m", "e", " ", "g", "t", " ",
                    "1", "8", ")">>)
        /\ vin.filters = <<Lambda("any", Lambda("all", ageGt18))>> =>
              vout = Ok(FilterPrefix \o
                  <<"t", "a", "g", "s", "/", "a", "n", "y", "(", "s", ":",
                    " ", "s", "/", "t", "a", "g", "s", "/", "a", "l", "l",
                    "(", "t", ":", " ", "t", "/", "n", "a", "m", "e", " ",
                    "g", "t", " ", "1", "8", ")", ")">>)
        /\ vin.filters = <<Lambda("any", Lambda("all", Lambda("any", ageGt18)))>> =>
              vout = Ok(FilterPrefix \o
                  <<"t", "a", "g", "s", "/", "a", "n", "y", "(", "s", ":",
                    " ", "s", "/", "t", "a", "g", "s", "/", "a", "l", "l",
                    "(", "t", ":", " ", "t", "/", "t", "a", "g", "s", "/",
                    "a", "n", "y", "(", "u", ":", " ", "u", "/", "n", "a",
                    "m", "e", " ", "g", "t", " ", "1", "8", ")", ")", ")">>)
        /\ vin.filters = <<Lambda("any", Combined("and", <<Lambda("all", ageGt18), ageGt18>>))>> =>
              vout = Ok(FilterPrefix \o
                  <<"t", "a", "g", "s", "/", "a", "n", "y", "(", "s", ":",
                    " ", "(", "s", "/", "t", "a", "g", "s", "/", "a", "l",
                    "l", "(", "t", ":", " ", "t", "/", "n", "a", "m", "e",
                    " ", "g", "t", " ", "1", "8", ")", " ", "a", "n", "d",
                    " ", "s", "/", "n", "a", "m", "e", " ", "g", "t", " ",
                    "1", "8", ")", ")">>)
        /\ vin.filters = <<Lambda("any", Combined("or",
                            <<Lambda("all", Combined("and", <<Lambda("any", ageGt18), ageGt18>>)),
                              ageGt18>>))>> =>
              vout = Ok(FilterPrefix \o
                  <<"t", "a", "g", "s", "/", "a", "n", "y", "(", "s", ":",
                    " ", "(", "s", "/", "t", "a", "g", "s", "/", "a", "l",
                    "l", "(", "t", ":", " ", "(", "t", "/", "t", "a", "g",
                    "s", "/", "a", "n", "y", "(", "u", ":", " ", "u", "/",
                    "n", "a", "m", "e", " ", "g", "t", " ", "1", "8", ")",
                    " ", "a", "n", "d", " ", "t", "/", "n", "a", "m", "e",
                    " ", "g", "t", " ", "1", "8", ")", ")", " ", "o", "r",
                    " ", "s", "/", "n", "a", "m", "e", " ", "g", "t", " ",
                    "1", "8", ")", ")">>)

\* a Lambda nested three deep through two Combined nodes was rendered
C14_Witness ==
    /\ vout # Idle /\ vout.k = "ok"
    /\ vin.filters = <<Lambda("any", Combined("or",
                        <<Lambda("all", Combined("and", <<Lambda("any", ageGt18), ageGt18>>)),
                          ageGt18>>))>>

\* the Lambda on `tags` with quantifier `any` whose body is a node that renders
\* on its own
IsLambdaOverRenderable(filter) ==
    /\ HasProp(filter, "lambdaOperator") /\ filter.lambdaOperator = "any"
    /\ HasProp(filter, "expression")
    /\ queryPart(vin.context, filter.expression).k = "ok"

\* C15: a Lambda renders without error as field/quantifier(param: inner) for
\* every variant of its inner node, and every occurrence of the body's field
\* `name`, also under a Combined or a Negation, follows a lambda parameter
\* and a slash.
C15_LambdaRendersEveryInner ==
    (vout # Idle /\ Len(vin.filters) = 1 /\ IsLambdaOverRenderable(vin.filters[1])) =>
        /\ vout.k = "ok"
        /\ StartsWith(vout.s, FilterPrefix \o <<"t", "a", "g", "s", "/", "a", "n", "y",
                                                "(", "s", ":", " ">>)
        /\ EndsWith(vout.s, <<")">>)
        /\ \A i \in 1..(Len(vout.s) - 3) :
              SubSeq(vout.s, i, i + 3) = <<"n", "a", "m", "e">> =>
                  /\ i > 2
                  /\ vout.s[i - 1] = "/"
                  /\ vout.s[i - 2] \in {"s", "t", "u"}

\* C16: the FilterBuilder form and the object form of the README's filter
\* give the same query, ?$filter=((contains(name, 'John') and age gt 18) or
\* isActive eq true).
C16_BuilderAndObjectFormsAgree ==
    (/\ qlast.op = "toQuery"
     /\ \/ FilterNodes = <<readmeObject>>
        \/ FilterNodes = <<runFilterCallback(<<[parts |-> <<>>]>>, 1, readmeCallback).v>>) =>
        qlast.ret = Ok(<<"?">> \o FilterPrefix \o
            <<"(", "(", "c", "o", "n", "t", "a", "i", "n", "s", "(", "n",
              "a", "m", "e", ",", " ", "'", "J", "o", "h", "n", "'", ")",
              " ", "a", "n", "d", " ", "a", "g", "e", " ", "g", "t", " ",
              "1", "8", ")", " ", "o", "r", " ", "i", "s", "A", "c", "t",
              "i", "v", "e", " ", "e", "q", " ", "t", "r", "u", "e", ")">>)

(***************************************************************************)
(* Dispatcher and classifier properties                                    *)
(***************************************************************************)
\* C17: reading a name that is not a supported operation from a dispatcher
\* that already holds a field (x.name.unknownOp) fails with the
\* unknown-operation error and yields neither a dispatcher nor a node.
C17_UnknownOperationFails ==
    (/\ dlast # Idle
     /\ dlast.step = Get("unknownOp")
     /\ dlast.before.k = "proxy"
     /\ Len(dlast.before.ctx.path) > 0) =>
        dcur = Throw("Unknown operation")

\* every Combined in the tree has at least two children
RECURSIVE CombinedHaveTwoChildren(_)
CombinedHaveTwoChildren(node) ==
    IF isCombinedFilter(node)
        THEN /\ Len(node.filters) >= 2
             /\ \A i \in DOMAIN node.filters : CombinedHaveTwoChildren(node.filters[i])
    ELSE IF isNegatedFilter(node) THEN CombinedHaveTwoChildren(node.filter)
    ELSE TRUE

C19_DuplicatesCollapse ==
    (qlast.op = "toQuery" /\ "filter" \in DOMAIN qcur.queryComponents) =>
        LET filter == qcur.queryComponents.filter
            reversed == [i \in DOMAIN filter |-> filter[Len(filter) + 1 - i]]
        IN /\ \A i, j \in DOMAIN FilterNodes :
                FilterNodes[i] = FilterNodes[j] => i = j
           /\ qlast.ret = toQuery(qheap, [filter |-> reversed], qcur.filterContext)

(***************************************************************************)
(* Operator table properties                                               *)
(***************************************************************************)
GeneralOperators == {"eq", "ne"}
OrderingOperators == {"lt", "le", "gt", "ge"}
StringOperators == {"contains", "startswith", "endswith", "indexof", "concat"}

\* C20 as stated: isValidOperator is true exactly for string with eq, ne,
\* contains, startswith, endswith, indexof, concat; number and Date with eq,
\* ne, lt, le, gt, ge; boolean, Guid and null with eq, ne; and false for every
\* other pair, the kind `unknown` included.
C20_Original ==
    vout # Idle =>
        (vout.v <=>
            \/ vin.type = "string" /\ vin.operator \in GeneralOperators \cup StringOperators
            \/ /\ vin.type \in {"number", "Date"}
               /\ vin.operator \in GeneralOperators \cup OrderingOperators
            \/ vin.type \in {"boolean", "Guid", "null"} /\ vin.operator \in GeneralOperators)

\* C20, amended: the string row of the table also holds substringof; apart
\* from that the table is as stated, every other pair is false, and every
\* lookup returns a boolean.
C20_OperatorTable ==
    vout # Idle =>
        /\ vout.v \in BOOLEAN
        /\ vout.v <=>
            \/ /\ vin.type = "string"
               /\ vin.operator \in GeneralOperators \cup StringOperators \cup {"substringof"}
            \/ /\ vin.type \in {"number", "Date"}
               /\ vin.operator \in GeneralOperators \cup OrderingOperators
            \/ vin.type \in {"boolean", "Guid", "null"} /\ vin.operator \in GeneralOperators

\* substringof was looked up for a string and found legal
C20_Witness ==
    /\ vout # Idle /\ vout.v
    /\ vin.type = "string" /\ vin.operator = "substringof"

\* a Comparison: a basic filter that is neither an EnumFlag nor a Membership
IsComparison(filter) ==
    isBasicFilter(filter) /\ ~isHasFilter(filter) /\ ~isInFilter(filter)

\* C21: rendering a Comparison throws the invalid-operator-for-type error
\* whenever its operator is not in the operator table's row for the
\* classified kind of its value (string, number, boolean, Date, Guid, null),
\* e.g. `gt` with null or `gt` with a GUID-shaped string
C21_IllegalOperatorRejected ==
    (/\ vout # Idle
     /\ Len(vin.filters) = 1
     /\ IsComparison(vin.filters[1])
     /\ getValueType(vin.filters[1].value) \in DOMAIN operatorTypeMap
     /\ ~isValidOperator(getValueType(vin.filters[1].value), vin.filters[1].operator))
    => vout = Throw("Invalid operator for type")

\* C22: top(n) throws `Invalid top count` and skip(n) throws `Invalid skip
\* count` for every negative n, in every state of the builder, also after an
\* earlier top/skip call stored a positive value
C22_NegativeCountFails ==
    (qlast.op \in {"top", "skip"} /\ qlast.args[1].n < 0)
    => qlast.ret = Throw(IF qlast.op = "top" THEN "Invalid top count"
                                             ELSE "Invalid skip count")

\* the renderings of the children of the Combined node that was rendered
ChildTexts ==
    [i \in DOMAIN vin.filters[1].filters |->
        queryPart(vin.context, vin.filters[1].filters[i])]

\* the children's texts joined with the node's logic
JoinedChildren ==
    Join([i \in DOMAIN ChildTexts |-> ChildTexts[i].s],
         IF vin.filters[1].logic = "and" THEN <<" ", "a", "n", "d", " ">>
                                         ELSE <<" ", "o", "r", " ">>)

CombinedRendered ==
    /\ vout # Idle
    /\ Len(vin.filters) = 1
    /\ isCombinedFilter(vin.filters[1])
    /\ \A i \in DOMAIN ChildTexts : ChildTexts[i].k = "ok"

\* C23 as stated: a Combined is wrapped in parentheses exactly when more than
\* one child was joined; a single-child Combined renders as its child's text
\* without added parentheses, whatever the child is
C23_Original ==
    CombinedRendered =>
        vout = IF Len(vin.filters[1].filters) > 1
                  THEN Ok(FilterPrefix \o <<"(">> \o JoinedChildren \o <<")">>)
                  ELSE Ok(FilterPrefix \o JoinedChildren)

\* C23: a Combined is wrapped in parentheses exactly when the joined text of
\* its children holds a space: always with two or more children, and with a
\* single child whenever the child's text holds a space, so
\* Combined(and, [name eq 'x']) renders `(name eq 'x')`; only a joined text
\* without a space (a Combined without children) is left bare
C23_CombinedParenthesized ==
    CombinedRendered =>
        /\ vout = IF Includes(JoinedChildren, " ")
                     THEN Ok(FilterPrefix \o <<"(">> \o JoinedChildren \o <<")">>)
                     ELSE Ok(FilterPrefix \o JoinedChildren)
        /\ Len(vin.filters[1].filters) > 1 => Includes(JoinedChildren, " ")
        /\ (Len(vin.filters[1].filters) = 1 /\ isBasicFilter(vin.filters[1].filters[1]))
              => Includes(JoinedChildren, " ")

\* Combined(and, [name eq '''']) was rendered, in parentheses
C23_Witness ==
    /\ vout # Idle
    /\ vin.filters = <<Combined("and", <<Comparison("eq", StrV(<<"'">>))>>)>>
    /\ vout = Ok(FilterPrefix \o <<"(">> \o Chars.name
                 \o <<" ", "e", "q", " ", "'", "'", "'", "'", ")">>)

\* the parameter of a lambda at a nesting depth: s, t, u
Param(depth) == <<Alphabet[18 + depth]>>

\* tags/any(s: s/tags/all(t: t/tags/any(u: <inner> gt 18))), cut at the depth
ChainText(depth, inner) ==
    LET gt18 == inner \o <<" ", "g", "t", " ", "1", "8", ")">> IN
    <<"t", "a", "g", "s", "/", "a", "n", "y", "(", "s", ":", " ">>
    \o (IF depth = 1 THEN gt18
        ELSE <<"s", "/", "t", "a", "g", "s", "/", "a", "l", "l", "(", "t", ":", " ">>
             \o (IF depth = 2 THEN gt18
                 ELSE <<"t", "/", "t", "a", "g", "s", "/", "a", "n", "y", "(", "u",
                        ":", " ">> \o gt18 \o <<")">>)
             \o <<")">>)

\* C24 as stated: inside a lambda with parameter p an inner field f renders as
\* p when f is `s`, as f when f is p or the parameter of an enclosing lambda,
\* and as p/f otherwise; at depth 3 the field `t` stays `t`
C24_Original ==
    \A depth \in 1..3, field \in LambdaFields :
        (vout # Idle /\ vin.filters = <<LambdaChain(depth, field)>>) =>
            vout = Ok(FilterPrefix \o ChainText(depth,
                        IF field = Chars.s THEN Param(depth)
                        ELSE IF \E d \in 1..depth : field = Param(d) THEN field
                        ELSE Param(depth) \o <<"/">> \o field))

\* C24: inside a lambda with parameter p an inner field f renders as p when f
\* is `s`, as f when f is p itself, and as p/f in every other case, the
\* parameter of an enclosing lambda included: at depth 3 the field `t`
\* renders `u/t`
C24_InnerFieldPrefix ==
    \A depth \in 1..3, field \in LambdaFields :
        (vout # Idle /\ vin.filters = <<LambdaChain(depth, field)>>) =>
            vout = Ok(FilterPrefix \o ChainText(depth,
                        IF field = Chars.s THEN Param(depth)
                        ELSE IF field = Param(depth) THEN field
                        ELSE Param(depth) \o <<"/">> \o field))

\* the field `t` was rendered under three lambdas, as u/t
C24_Witness ==
    /\ vout # Idle
    /\ vin.filters = <<LambdaChain(3, Chars.t)>>
    /\ vout = Ok(FilterPrefix \o ChainText(3, <<"u", "/", "t">>))

\* the transforms of a chain of calls, in call order
RECURSIVE TransformsOf(_)
TransformsOf(calls) ==
    IF Len(calls) = 0 THEN <<>>
    ELSE (IF calls[1] = "ignoreCase" THEN <<>> ELSE <<calls[1]>>)
         \o TransformsOf(Tail(calls))

\* tn(...t1(inner)...)
RECURSIVE Nested(_, _)
Nested(transforms, inner) ==
    IF Len(transforms) = 0 THEN inner
    ELSE Chars[transforms[Len(transforms)]] \o <<"(">>
         \o Nested(SubSeq(transforms, 1, Len(transforms) - 1), inner) \o <<")">>

CaseFolded(calls) == \E i \in DOMAIN calls : calls[i] = "ignoreCase"

\* the left-hand side for a chain of calls on `name`
ChainLhs(calls) ==
    Nested(TransformsOf(calls),
           IF CaseFolded(calls) THEN Nested(<<"tolower">>, Chars.name) ELSE Chars.name)

\* C25: the transforms of a chain are rendered in call order, the first one
\* innermost, and with the case-fold flag tolower is applied innermost, before
\* every transform of the chain, wherever ignoreCase() was called;
\* x.name.tolower().trim().eq(v) has the left-hand side trim(tolower(name))
C25_TransformOrder ==
    (vout # Idle /\ Len(vin.filters) = 1 /\ IsComparison(vin.filters[1])) =>
    \A calls \in TransformChains :
        /\ vin.filters = <<DispatchedNode(calls, "eq", <<StrV(lit_aB)>>)>>
              => vout = Ok(FilterPrefix \o ChainLhs(calls) \o <<" ", "e", "q", " ", "'">>
                           \o (IF CaseFolded(calls) THEN <<"a", "b">> ELSE lit_aB)
                           \o <<"'">>)
        /\ vin.filters = <<DispatchedNode(calls, "gt", <<NumV(18)>>)>>
              => vout = Ok(FilterPrefix \o ChainLhs(calls)
                           \o <<" ", "g", "t", " ", "1", "8">>)

\* x.name.trim().ignoreCase().tolower().eq('aB') was rendered
C25_Witness ==
    /\ vout # Idle
    /\ vin.filters = <<DispatchedNode(<<"trim", "ignoreCase", "tolower">>, "eq",
                                      <<StrV(lit_aB)>>)>>
    /\ vout = Ok(FilterPrefix
                 \o <<"t", "o", "l", "o", "w", "e", "r", "(", "t", "r", "i", "m", "(",
                      "t", "o", "l", "o", "w", "e", "r", "(", "n", "a", "m", "e", ")",
                      ")", ")", " ", "e", "q", " ", "'", "a", "b", "'">>)

\* the node carries a function descriptor of a string predicate
HasPredicateDescriptor(node) ==
    /\ HasProp(node, "function")
    /\ HasProp(node.function, "type")
    /\ node.function.type \in STRING_PREDICATES

\* a terminal was called and emitted a node
Emitted ==
    /\ dlast # Idle /\ dlast.step.k = "call"
    /\ dlast.before.k = "opfn"
    /\ dcur.k = "expr"

\* C26: a node the dispatcher emits carries a contains/startswith/endswith
\* descriptor if and only if the terminal contains/startswith/endswith
\* produced it, and then its operator is `eq` and its value is true; the
\* comparison terminals never emit a node with such a descriptor
C26_PredicateDescriptorPairing ==
    Emitted =>
        /\ HasPredicateDescriptor(dcur.filter) <=> dlast.before.op \in STRING_PREDICATES
        /\ HasPredicateDescriptor(dcur.filter) =>
              /\ dcur.filter.function.type = dlast.before.op
              /\ dcur.filter.operator = "eq"
              /\ dcur.filter.value = BoolV(TRUE)
        /\ dlast.before.op \in {"eq", "ne", "gt", "ge", "lt", "le", "isTrue", "isFalse"} =>
              ~HasPredicateDescriptor(dcur.filter)

\* startswith was called after length() had set a function descriptor
C26_Witness ==
    /\ Emitted
    /\ dlast.before.op = "startswith"
    /\ "func" \in DOMAIN dlast.before.ctx
    /\ HasPredicateDescriptor(dcur.filter)

\* the names read on the way from createFieldProxy() to the entry i, in order
RECURSIVE OwnSteps(_)
OwnSteps(i) ==
    IF heap[i].parent = 0 THEN <<>>
    ELSE Append(OwnSteps(heap[i].parent), heap[i].steps[1].p)

OwnCalled(i, name) == \E k \in DOMAIN OwnSteps(i) : OwnSteps(i)[k] = name

\* the field path of the names read on the way to the entry i
OwnPath(i) ==
    LET IsSegment(p) == p \in {"name", "tags"} IN
    Join([k \in DOMAIN SelectSeq(OwnSteps(i), IsSegment) |->
            Chars[SelectSeq(OwnSteps(i), IsSegment)[k]]], <<"/">>)

\* the transforms called on the way to the entry i
OwnTransforms(i) ==
    LET IsTransform(p) == p \in STRING_TRANSFORMS IN
    SelectSeq(OwnSteps(i), IsTransform)

\* C27: every dispatcher step returns a new dispatcher and leaves the one it
\* was called on unchanged; the node a terminal emits holds exactly the path,
\* transforms, function and flags of its own chain and nothing of another
\* branch taken from the same snapshot; the dispatcher handed to an any/all
\* callback starts with empty path, no transforms, no function, flags off
C27_SnapshotsIsolated ==
    /\ last # Idle =>
          /\ Len(heap) = Len(last.pre) + 1
          /\ \A i \in DOMAIN last.pre : heap[i] = last.pre[i]
    /\ \A i \in DOMAIN heap :
          /\ heap[i].val.k = "proxy" =>
                /\ fieldPathOf(heap[i].val.ctx) = OwnPath(i)
                /\ heap[i].val.ctx.transforms = OwnTransforms(i)
                /\ heap[i].val.ctx.ignoreCase = OwnCalled(i, "ignoreCase")
                /\ heap[i].val.ctx.removeQuotes = OwnCalled(i, "removeQuotes")
                /\ ("func" \in DOMAIN heap[i].val.ctx) = OwnCalled(i, "length")
          /\ (heap[i].parent # 0 /\ heap[i].steps[1].p \in {"eq", "isTrue"}) =>
                /\ heap[i].val.k = "expr"
                /\ heap[i].val.filter.field = OwnPath(i)
                /\ IF Len(OwnTransforms(i)) = 0
                      THEN ~HasProp(heap[i].val.filter, "transform")
                      ELSE /\ HasProp(heap[i].val.filter, "transform")
                           /\ heap[i].val.filter.transform = ArrV(OwnTransforms(i))
                /\ HasProp(heap[i].val.filter, "ignoreCase") = OwnCalled(i, "ignoreCase")
                /\ HasProp(heap[i].val.filter, "removeQuotes") =
                      OwnCalled(i, "removeQuotes")
                /\ HasProp(heap[i].val.filter, "function") = OwnCalled(i, "length")
          /\ (heap[i].parent # 0 /\ heap[i].steps[1].p = "any") =>
                /\ heap[i].val.k = "expr"
                /\ heap[i].val.filter =
                      [field |-> OwnPath(i), lambdaOperator |-> "any",
                       expression |-> [field |-> <<>>, operator |-> "eq",
                                       value |-> StrV(lit_a)]]

\* from the snapshot x.name the branch tolower() was taken, and then eq('a')
\* on the snapshot itself emitted a node without a transform
C27_Witness ==
    /\ Len(heap) = 4
    /\ heap[2].steps = <<Get("name")>>
    /\ heap[3].parent = 2 /\ heap[3].steps = <<Get("tolower"), Call(<<>>)>>
    /\ heap[4].parent = 2 /\ heap[4].steps = <<Get("eq"), Call(<<StrV(lit_a)>>)>>
    /\ heap[4].val = ExprV([field |-> Chars.name, operator |-> "eq",
                            value |-> StrV(lit_a)])

\* C28: contains/startswith/endswith keep only the field path and the
\* case-fold flag of the dispatcher: the transforms, a function descriptor set
\* before and the quote-removal flag are not in the emitted node, so
\* x.name.tolower().contains(v) emits the node of x.name.contains(v) and
\* renders the same text
C28_PredicateDropsChainState ==
    (vout # Idle /\ Len(vin.filters) = 1 /\ HasPredicateDescriptor(vin.filters[1])) =>
    \A calls \in PredicateChains, type \in STRING_PREDICATES :
        vin.filters = <<DispatchedNode(calls, type, <<StrV(lit_aB)>>)>>
        => /\ vin.filters[1] =
                [field |-> Chars.name, operator |-> "eq", value |-> BoolV(TRUE),
                 function |-> [type |-> type, value |-> StrV(lit_aB)]]
                @@ (IF CaseFolded(calls) THEN [ignoreCase |-> BoolV(TRUE)] ELSE <<>>)
           /\ vin.filters[1] =
                DispatchedNode(IF CaseFolded(calls) THEN <<"ignoreCase">> ELSE <<>>,
                               type, <<StrV(lit_aB)>>)
           /\ vout = Ok(FilterPrefix \o Chars[type] \o <<"(">>
                        \o (IF CaseFolded(calls) THEN Nested(<<"tolower">>, Chars.name)
                                                 ELSE Chars.name)
                        \o <<",", " ", "'">>
                        \o (IF CaseFolded(calls) THEN <<"a", "b">> ELSE lit_aB)
                        \o <<"'", ")">>)

\* the node of x.name.tolower().length().removeQuotes().contains('aB') was
\* rendered as contains(name, 'aB')
C28_Witness ==
    /\ vout # Idle
    /\ vin.filters = <<DispatchedNode(<<"tolower", "length", "removeQuotes">>,
                                      "contains", <<StrV(lit_aB)>>)>>
    /\ vout = Ok(FilterPrefix
                 \o <<"c", "o", "n", "t", "a", "i", "n", "s", "(", "n", "a", "m", "e",
                      ",", " ", "'", "a", "B", "'", ")">>)

C30_GroupIgnoresReceiver ==
    (last.op = "group" /\ Len(InputBuilder.parts) > 0) =>
        /\ Created
        /\ Returned.parts = <<[filter |-> build(InputBuilder.parts)]>>
        /\ build(Returned.parts) = build(InputBuilder.parts)
        /\ \A r \in DOMAIN last.pre :
              group(last.pre, r, last.input.id).heap = heap
        /\ \A i \in DOMAIN last.pre : heap[i] = last.pre[i]

\* where(name eq 'a').group(where(age gt 18)) built age gt 18
C30_Witness ==
    /\ last.op = "group" /\ Created
    /\ Receiver.parts = <<[filter |-> leafNameEq]>>
    /\ InputBuilder.parts = <<[filter |-> leafAgeGt]>>
    /\ build(Returned.parts) = leafAgeGt

====
